---- MODULE Spec2Model ----
(***************************************************************************)
(* Model of the LangGraph text-to-SQL workflow of                          *)
(* backend/agents/sql_agent_graph.py (SQLAgentWorkflow) together with the  *)
(* ExecuteSQL tool it drives.  One action per workflow node; the routing   *)
(* functions of the conditional edges are operators applied by the node    *)
(* action that precedes them, as the graph engine does.                    *)
(*                                                                         *)
(* Texts whose content the code inspects (error texts, the final answer)   *)
(* are sequences of one-character strings, so that substring tests, case   *)
(* folding and prefixes are computed.  Texts the workflow only stores and  *)
(* compares with the empty string (SQL, plan) are TLA+ strings.            *)
(***************************************************************************)
EXTENDS Integers, Sequences, FiniteSets, TLC

VARIABLES
    state,      \* the AgentState of the run (one field per channel)
    pc,         \* the node the engine runs next, "END" or "GraphRecursionError"
    last,       \* the node that ran last ("start" before the first)
    step,       \* number of node visits made so far
    visits,     \* number of visits per node
    enable_human_interaction,  \* SQLAgentWorkflow.enable_human_interaction
    tools,      \* names of the tools the workflow was constructed with
    all_failed, \* history: no execution of this run has succeeded so far
    env,        \* what the LLM and the database of this run can answer
    path_searches,  \* FindShortestPath calls made by the node that ran last
    call        \* the Database calls studied on their own: inputs and results

vars == <<state, pc, last, step, visits, enable_human_interaction, tools, all_failed, env,
          path_searches, call>>

(***************************************************************************)
(* Bounds of the model.                                                    *)
(***************************************************************************)
\* max_iterations is drawn from 0..SmallMaxIterations and LargeMaxIterations
SmallMaxIterations == 3
LargeMaxIterations == 13
\* entries of the attempt history kept (the stored list is exact up to here)
HistCap == 8

(***************************************************************************)
(* Text helpers.                                                           *)
(***************************************************************************)
UpperChars == <<"A","B","C","D","E","F","G","H","I","J","K","L","M",
                "N","O","P","Q","R","S","T","U","V","W","X","Y","Z">>
LowerChars == <<"a","b","c","d","e","f","g","h","i","j","k","l","m",
                "n","o","p","q","r","s","t","u","v","w","x","y","z">>

UpperSet == { UpperChars[i] : i \in 1..Len(UpperChars) }
LetterSet == UpperSet \cup { LowerChars[i] : i \in 1..Len(LowerChars) } \cup {"_"}
DigitSet == {"0","1","2","3","4","5","6","7","8","9"}
ToLower == [c \in UpperSet |-> LowerChars[CHOOSE i \in 1..Len(UpperChars) : UpperChars[i] = c]]

\* str.lower() on one character
LowerChar(c) == IF c \in UpperSet THEN ToLower[c] ELSE c

\* str.lower()
Lower(s) == [i \in 1..Len(s) |-> LowerChar(s[i])]

\* the Python test  sub in s
Contains(s, sub) ==
    \/ sub = <<>>
    \/ \E i \in 1..(Len(s) - Len(sub) + 1) :
          s[i] = sub[1] /\ SubSeq(s, i, i + Len(sub) - 1) = sub

\* str.startswith
StartsWith(s, p) == Len(s) >= Len(p) /\ SubSeq(s, 1, Len(p)) = p

T_Error == <<"E","r","r","o","r",":">>
T_error == <<"e","r","r","o","r",":">>
T_no_such_column == <<"n","o"," ","s","u","c","h"," ","c","o","l","u","m","n">>
T_SQL_execution_error ==
    <<"S","Q","L"," ","e","x","e","c","u","t","i","o","n"," ",
      "e","r","r","o","r",":"," ">>
T_No_SQL_query == <<"N","o"," ","S","Q","L"," ","q","u","e","r","y"," ",
                    "t","o"," ","e","x","e","c","u","t","e">>
T_tool_not_available ==
    <<"E","x","e","c","u","t","e","S","Q","L"," ","t","o","o","l"," ",
      "n","o","t"," ","a","v","a","i","l","a","b","l","e">>
T_I_encountered == <<"I"," ","e","n","c","o","u","n","t","e","r","e","d"," ",
                     "a","n"," ","e","r","r","o","r",":"," ">>

(***************************************************************************)
(* Program constants.                                                      *)
(***************************************************************************)
\* a limit that lets one more node visit through
RecursionLimit_OffByOne == 50 + 1

\* config={"recursion_limit": 50} of SQLAgentWorkflow.query
RecursionLimit == 50
\* "if len(all_columns) < 3" of column_search_node
FewColumns == 3
\* "all_db_columns[:50]" of column_search_node
FallbackColumns == 50
\* "values[:3]" of value_search_node
MaxValueSearches == 3

NodeNames == {"planning", "human_interaction", "search_columns", "search_values",
              "find_paths", "generate_sql", "execute_sql", "answer"}

AllTools == {"SearchColumn", "SearchValue", "FindShortestPath", "ExecuteSQL"}

\* Python's None for execution_result, and a returned row list
None == [is_none |-> TRUE, rows |-> <<>>]
Rows(r) == [is_none |-> FALSE, rows |-> r]
\* truth value of execution_result (None and the empty list are falsy)
Truthy(res) == ~res.is_none /\ res.rows # <<>>

\* the Python test  x in list
InList(x, l) == \E i \in 1..Len(l) : l[i] = x

(***************************************************************************)
(* AgentState: the merge of a node's returned dict into the stored state.  *)
(* sql_queries is Annotated[List[str], operator.add]: the engine stores    *)
(* old + returned.  Every other modelled field is overwritten.             *)
(***************************************************************************)
Cap(l) == IF Len(l) > HistCap THEN SubSeq(l, 1, HistCap) ELSE l

\* operator.add on the stored list and the list a node returned
OperatorAdd(old, returned) == Cap(old \o returned)

MergeState(old, returned) ==
    [returned EXCEPT !.sql_queries = OperatorAdd(old.sql_queries, returned.sql_queries)]

\* initial_state of SQLAgentWorkflow.query
InitialState(question, max_iterations) ==
    [ question |-> question,
      current_step |-> "start",
      iteration |-> 0,
      max_iterations |-> max_iterations,
      required_actions |-> <<>>,
      relevant_columns |-> <<>>,
      relevant_values |-> <<>>,
      join_paths |-> <<>>,
      sql_query |-> <<>>,
      sql_queries |-> <<>>,
      selected_path_indices |-> <<>>,
      path_selection_reasoning |-> "",
      execution_result |-> None,
      execution_error |-> <<>>,
      needs_column_search |-> FALSE,
      needs_value_search |-> FALSE,
      needs_path_finding |-> FALSE,
      needs_sql_generation |-> FALSE,
      ready_to_execute |-> FALSE,
      path_finding_deferred |-> FALSE,
      path_finding_failed |-> FALSE,
      path_finding_errors |-> <<>>,
      single_table_with_join_indicators |-> FALSE,
      needs_human_input |-> FALSE,
      awaiting_confirmation |-> FALSE,
      confirmation_type |-> "",
      final_answer |-> <<>> ]

(***************************************************************************)
(* ExecuteSQL tool and the str() of what it returns.                       *)
(* A database outcome is either a list of one-cell rows or a raised        *)
(* Exception carrying "SQL execution error: <sqlite message>".             *)
(***************************************************************************)
M_no_such_column == <<"n","o"," ","s","u","c","h"," ","c","o","l","u","m","n",":"," ","t","e","a","m","n","a","m","e">>
M_No_Such_Column == <<"N","o"," ","s","u","c","h"," ","c","o","l","u","m","n",":"," ","x">>
M_syntax == <<"n","e","a","r"," ","F","R","O","M",":"," ","s","y","n","t","a","x"," ","e","r","r","o","r">>
M_no_such_Team == <<"n","o"," ","s","u","c","h"," ","c","o","l","u","m","n",":"," ","T","e","a","m",".","n","a","m","e">>
C_Messi == <<"M","e","s","s","i">>
\* a stored text value that happens to carry the marker, in capitals
C_ERROR_note == <<"E","R","R","O","R",":"," ","x">>

\* Database.execute_query: the exception it raises for a sqlite message
ExecuteQueryError(msg) == T_SQL_execution_error \o msg

DbReturned(rows) == [raised |-> FALSE, rows |-> rows, msg |-> <<>>]
DbRaised(msg) == [raised |-> TRUE, rows |-> <<>>, msg |-> ExecuteQueryError(msg)]

\* ExecuteSQLTool._run: rows, or one row holding "Error: <exception text>"
ExecuteSQLTool_run(db) ==
    IF db.raised
    THEN << <<T_Error \o <<" ">> \o db.msg>> >>
    ELSE db.rows

RECURSIVE JoinRows(_)
\* the rows of str(list of 1-tuples), joined by ", "
JoinRows(rows) ==
    IF rows = <<>> THEN <<>>
    ELSE LET cell == <<"(", "'">> \o Head(rows)[1] \o <<"'", ",", ")">>
         IN  IF Len(rows) = 1 THEN cell
             ELSE cell \o <<",", " ">> \o JoinRows(Tail(rows))

\* str(result) for a list of one-cell rows
Str(rows) == <<"[">> \o JoinRows(rows) \o <<"]">>

(***************************************************************************)
(* Nodes.  Each operator maps the state the node receives, and what the    *)
(* LLM or a tool answered, to the dict the node returns ({**state, ...}).  *)
(***************************************************************************)

\* planning_node; actions is the parsed ACTIONS: line of the LLM response
planning_node(s, actions) ==
    [s EXCEPT !.required_actions = actions,
              !.needs_column_search = InList("SearchColumn", actions),
              !.needs_value_search = InList("SearchValue", actions),
              !.needs_path_finding = InList("FindShortestPath", actions),
              !.needs_sql_generation = TRUE,
              !.current_step = "planning_complete",
              !.awaiting_confirmation = TRUE,
              !.confirmation_type = "plan"]

\* the execution node with a success branch that keeps the earlier error text
sql_execution_node_KeepsError(s, has_tool, db) ==
    IF s.sql_query = <<>>
    THEN [s EXCEPT !.execution_error = T_No_SQL_query,
                   !.current_step = "execution_failed"]
    ELSE IF ~has_tool
    THEN [s EXCEPT !.execution_error = T_tool_not_available]
    ELSE LET result == ExecuteSQLTool_run(db)
             result_str == Str(result)
         IN  IF Contains(result_str, T_Error) \/ Contains(Lower(result_str), T_error)
             THEN [s EXCEPT !.execution_result = None,
                            !.execution_error = result_str,
                            !.ready_to_execute = FALSE,
                            !.current_step = "execution_failed"]
             ELSE [s EXCEPT !.execution_result = Rows(result),
                            !.ready_to_execute = FALSE,
                            !.current_step = "execution_complete"]

sql_execution_node_CaseSensitive(s, has_tool, db) ==
    IF s.sql_query = <<>>
    THEN [s EXCEPT !.execution_error = T_No_SQL_query,
                   !.current_step = "execution_failed"]
    ELSE IF ~has_tool
    THEN [s EXCEPT !.execution_error = T_tool_not_available]
    ELSE LET result == ExecuteSQLTool_run(db)
             result_str == Str(result)
         IN  IF Contains(result_str, T_Error)
             THEN [s EXCEPT !.execution_result = None,
                            !.execution_error = result_str,
                            !.ready_to_execute = FALSE,
                            !.current_step = "execution_failed"]
             ELSE [s EXCEPT !.execution_result = Rows(result),
                            !.execution_error = <<>>,
                            !.ready_to_execute = FALSE,
                            !.current_step = "execution_complete"]

\* sql_execution_node; db is what Database.execute_query does with the SQL.
\* ExecuteSQLTool._run catches every Exception itself, so the node's own except
\* clause is never entered and has no branch here.
sql_execution_node(s, has_tool, db) ==
    IF s.sql_query = <<>>
    THEN [s EXCEPT !.execution_error = T_No_SQL_query,
                   !.current_step = "execution_failed"]
    ELSE IF ~has_tool
    THEN [s EXCEPT !.execution_error = T_tool_not_available]
    ELSE LET result == ExecuteSQLTool_run(db)
             result_str == Str(result)
         IN  IF Contains(result_str, T_Error) \/ Contains(Lower(result_str), T_error)
             THEN [s EXCEPT !.execution_result = None,
                            !.execution_error = result_str,
                            !.ready_to_execute = FALSE,
                            !.current_step = "execution_failed"]
             ELSE [s EXCEPT !.execution_result = Rows(result),
                            !.execution_error = <<>>,
                            !.ready_to_execute = FALSE,
                            !.current_step = "execution_complete"]

\* answer_generation_node; content is the LLM's response text
answer_generation_node(s, content) ==
    IF s.execution_error # <<>> /\ ~Truthy(s.execution_result)
    THEN [s EXCEPT !.final_answer = T_I_encountered \o content,
                   !.current_step = "complete_with_error"]
    ELSE [s EXCEPT !.final_answer = content,
                   !.current_step = "complete"]

\* human_interaction_node
human_interaction_node(s) ==
    [s EXCEPT !.needs_human_input = TRUE,
              !.current_step = "awaiting_" \o s.confirmation_type \o "_confirmation"]

(***************************************************************************)
(* The database schema seen by the run: Player(id, player_name, team_id),  *)
(* Team(id, team_name).                                                    *)
(***************************************************************************)
N_Player == <<"P","l","a","y","e","r">>
N_Team == <<"T","e","a","m">>
N_id == <<"i","d">>
N_player_name == <<"p","l","a","y","e","r","_","n","a","m","e">>
N_team_id == <<"t","e","a","m","_","i","d">>
N_team_name == <<"t","e","a","m","_","n","a","m","e">>

Col(t, c) == [table_name |-> t, column_name |-> c]

\* Database.get_all_columns, in listing order
get_all_columns ==
    << Col(N_Player, N_id), Col(N_Player, N_player_name), Col(N_Player, N_team_id),
       Col(N_Team, N_id), Col(N_Team, N_team_name) >>

\* l[:n]
Take(l, n) ==
    IF n >= 0
    THEN (IF Len(l) > n THEN SubSeq(l, 1, n) ELSE l)
    ELSE (IF Len(l) + n > 0 THEN SubSeq(l, 1, Len(l) + n) ELSE <<>>)

column_search_node_db_Uncapped(s, has_tool, found, all_db_columns) ==
    LET is_retry == s.execution_error # <<>>
        all_columns == IF Len(found) < FewColumns
                       THEN found \o all_db_columns
                       ELSE found
    IN  IF has_tool
        THEN [s EXCEPT !.relevant_columns = all_columns,
                       !.needs_column_search = FALSE,
                       !.needs_value_search = IF is_retry THEN FALSE ELSE s.needs_value_search,
                       !.needs_path_finding = IF is_retry THEN FALSE ELSE s.needs_path_finding,
                       !.current_step = "column_search_complete"]
        ELSE [s EXCEPT !.needs_column_search = FALSE]

\* column_search_node on a database whose get_all_columns() lists
\* all_db_columns; found is the flattened result of the SearchColumn tool
column_search_node_db(s, has_tool, found, all_db_columns) ==
    LET is_retry == s.execution_error # <<>>
        all_columns == IF Len(found) < FewColumns
                       THEN found \o Take(all_db_columns, FallbackColumns)
                       ELSE found
    IN  IF has_tool
        THEN [s EXCEPT !.relevant_columns = all_columns,
                       !.needs_column_search = FALSE,
                       !.needs_value_search = IF is_retry THEN FALSE ELSE s.needs_value_search,
                       !.needs_path_finding = IF is_retry THEN FALSE ELSE s.needs_path_finding,
                       !.current_step = "column_search_complete"]
        ELSE [s EXCEPT !.needs_column_search = FALSE]

\* column_search_node on the database of the run
column_search_node(s, has_tool, found) ==
    column_search_node_db(s, has_tool, found, get_all_columns)

RECURSIVE Flatten(_)
\* all_results.extend(results) over the searches that did not raise
Flatten(ll) == IF ll = <<>> THEN <<>> ELSE Head(ll) \o Flatten(Tail(ll))

\* value_search_node; values is the parsed LLM response (<<>> for "NONE" or
\* an empty response), found[i] what the SearchValue tool returned for the
\* i-th value, and raised the searches that raised instead
value_search_node(s, has_tool, values, found, raised) ==
    IF values = <<>>
    THEN [s EXCEPT !.needs_value_search = FALSE,
                   !.current_step = "value_search_skipped"]
    ELSE LET searched == Take(values, MaxValueSearches)
             all_results ==
                 IF has_tool
                 THEN Flatten([i \in 1..Len(searched) |->
                                  IF i \in raised THEN <<>> ELSE found[i]])
                 ELSE <<>>
         IN  [s EXCEPT !.relevant_values = all_results,
                       !.needs_value_search = FALSE,
                       !.current_step = "value_search_complete"]

(***************************************************************************)
(* Schema graph (Database.build_schema_graph), shortest paths and the      *)
(* FindShortestPath tool.                                                  *)
(***************************************************************************)
\* f"{table}.{column}"
NodeName(t, c) == t \o <<".">> \o c

\* Database.get_all_foreign_keys: (from_table, from_column, to_table, to_column)
get_all_foreign_keys == << <<N_Player, N_team_id, N_Team, N_id>> >>

\* a database as the Database class reads it: its columns, in the order of
\* get_all_columns, and its foreign keys
SchemaDb == [columns |-> get_all_columns, fks |-> get_all_foreign_keys]

\* nodes of the graph: one per listed column, plus the endpoints add_edge creates
GraphNodesOf(db) ==
    { NodeName(db.columns[i].table_name, db.columns[i].column_name) :
        i \in 1..Len(db.columns) }
    \cup { NodeName(db.fks[i][1], db.fks[i][2]) : i \in 1..Len(db.fks) }
    \cup { NodeName(db.fks[i][3], db.fks[i][4]) : i \in 1..Len(db.fks) }

\* undirected edges: every two columns of one table, and every foreign key
GraphEdgesOf(db) ==
    { {NodeName(db.columns[ij[1]].table_name, db.columns[ij[1]].column_name),
       NodeName(db.columns[ij[2]].table_name, db.columns[ij[2]].column_name)} :
        ij \in { ij \in (1..Len(db.columns)) \X (1..Len(db.columns)) :
                   /\ ij[1] < ij[2]
                   /\ db.columns[ij[1]].table_name = db.columns[ij[2]].table_name } }
    \cup { {NodeName(db.fks[i][1], db.fks[i][2]), NodeName(db.fks[i][3], db.fks[i][4])} :
             i \in 1..Len(db.fks) }

\* Database.build_schema_graph
build_schema_graph(db) == [nodes |-> GraphNodesOf(db), edges |-> GraphEdgesOf(db)]

\* the graph of the database the workflow runs against
GraphNodes == GraphNodesOf(SchemaDb)
GraphEdges == GraphEdgesOf(SchemaDb)

Neighbors(G, n) == { m \in G.nodes : m # n /\ {n, m} \in G.edges }

RECURSIVE Reach(_, _, _, _)
\* breadth-first search: dist gives the distance of every node found so far
\* (-1 for the others), frontier the nodes found last, at distance k
Reach(G, dist, frontier, k) ==
    IF frontier = {} THEN dist
    ELSE LET next == { m \in UNION { Neighbors(G, n) : n \in frontier } : dist[m] = -1 }
         IN  Reach(G, [n \in G.nodes |-> IF n \in next THEN k + 1 ELSE dist[n]],
                   next, k + 1)

\* the distance of every node of G to b, -1 for the nodes b is not connected to
DistancesTo(G, b) == Reach(G, [n \in G.nodes |-> IF n = b THEN 0 ELSE -1], {b}, 0)

\* breadth-first distance from a to b, -1 when b is not reachable
Distance(G, a, b) == DistancesTo(G, b)[a]

RECURSIVE PathFrom_ByCallCount(_, _, _)
\* a search whose choice among equally short steps changes with the number of
\* queries answered before
PathFrom_ByCallCount(G, dist, a) ==
    IF dist[a] = 0 THEN <<a>>
    ELSE LET closer == { m \in Neighbors(G, a) : dist[m] = dist[a] - 1 }
             one == CHOOSE m \in closer : TRUE
             other == IF closer = {one} THEN one ELSE CHOOSE m \in closer \ {one} : TRUE
         IN  <<a>> \o PathFrom_ByCallCount(G, dist, IF call.kind = "path" /\ call.n % 2 = 1 THEN other ELSE one)

RECURSIVE PathFrom(_, _, _)
\* a path from a that gets one edge closer to the target at every step; among
\* several such steps the search takes one, always the same one
PathFrom(G, dist, a) ==
    IF dist[a] = 0 THEN <<a>>
    ELSE <<a>> \o PathFrom(G, dist, CHOOSE m \in Neighbors(G, a) : dist[m] = dist[a] - 1)

\* nx.shortest_path(G, source, target): a shortest path, NodeNotFound for an
\* endpoint that is no node of G, NetworkXNoPath when there is no path
nx_shortest_path(G, source, target) ==
    IF source \notin G.nodes \/ target \notin G.nodes
    THEN [raised |-> "NodeNotFound", path |-> <<>>]
    ELSE LET dist == DistancesTo(G, target)
         IN  IF dist[source] = -1
             THEN [raised |-> "NetworkXNoPath", path |-> <<>>]
             ELSE [raised |-> "", path |-> PathFrom(G, dist, source)]

\* a find_shortest_path that answers the bare pair of endpoints when there is
\* no path
Database_find_shortest_path_DirectPair(db, start, end) ==
    LET r == nx_shortest_path(build_schema_graph(db), start, end)
    IN  IF r.raised = "NetworkXNoPath"
        THEN [raised |-> FALSE, path |-> <<start, end>>]
        ELSE [raised |-> r.raised # "", path |-> r.path]

\* Database.find_shortest_path on the database db: NetworkXNoPath becomes the
\* empty list, any other exception of nx.shortest_path propagates
Database_find_shortest_path(db, start, end) ==
    LET r == nx_shortest_path(build_schema_graph(db), start, end)
    IN  IF r.raised = "NetworkXNoPath"
        THEN [raised |-> FALSE, path |-> <<>>]
        ELSE [raised |-> r.raised # "", path |-> r.path]

\* the answers for every two nodes of the workflow's database (the graph is
\* built once and kept in Database._schema_graph)
ShortestPaths ==
    [a \in GraphNodes |-> [b \in GraphNodes |-> Database_find_shortest_path(SchemaDb, a, b)]]

\* Database.find_shortest_path on the workflow's database, as the set of its
\* outcomes
find_shortest_path(start, end) ==
    IF start \in GraphNodes /\ end \in GraphNodes
    THEN { ShortestPaths[start][end] }
    ELSE { Database_find_shortest_path(SchemaDb, start, end) }

T_sep == <<" ","<","-",">"," ">>
T_arrow == <<"<","-",">">>
T_No_path_found == <<"N","o"," ","p","a","t","h"," ","f","o","u","n","d">>

RECURSIVE JoinPath(_)
\* " <-> ".join(path)
JoinPath(path) ==
    IF path = <<>> THEN <<>>
    ELSE IF Len(path) = 1 THEN Head(path)
    ELSE Head(path) \o T_sep \o JoinPath(Tail(path))

\* FindShortestPathTool._format_path
format_path(path) == IF path = <<>> THEN T_No_path_found ELSE JoinPath(path)

\* FindShortestPathTool._run with one start and one end column: the
\* formatted path, or the exception of find_shortest_path
FindShortestPathTool_run(start, end) ==
    { IF r.raised THEN [raised |-> TRUE, text |-> <<>>]
      ELSE [raised |-> FALSE, text |-> format_path(r.path)] :
        r \in find_shortest_path(start, end) }

(***************************************************************************)
(* _normalize_path: parse "T1.c <-> T2.c" into the list of its tables.     *)
(***************************************************************************)
RECURSIVE FindFrom(_, _, _)
\* index of the first occurrence of sub in s at or after i, 0 when there is none
FindFrom(s, sub, i) ==
    IF i + Len(sub) - 1 > Len(s) THEN 0
    ELSE IF SubSeq(s, i, i + Len(sub) - 1) = sub THEN i
    ELSE FindFrom(s, sub, i + 1)

\* str.find(sub) + 1
Find(s, sub) == FindFrom(s, sub, 1)

RECURSIVE Split(_, _)
\* str.split(sep)
Split(s, sep) ==
    LET i == Find(s, sep)
    IN  IF i = 0 THEN <<s>>
        ELSE <<SubSeq(s, 1, i - 1)>> \o Split(SubSeq(s, i + Len(sep), Len(s)), sep)

RECURSIVE Strip(_)
\* str.strip() for blanks
Strip(s) ==
    IF s = <<>> THEN s
    ELSE IF Head(s) = " " THEN Strip(Tail(s))
    ELSE IF s[Len(s)] = " " THEN Strip(SubSeq(s, 1, Len(s) - 1))
    ELSE s

RECURSIVE FirstTables(_, _)
\* the table of each part holding a ".", first occurrences only, in order
FirstTables(parts, seen) ==
    IF parts = <<>> THEN <<>>
    ELSE LET part == Head(parts)
             table == Split(part, <<".">>)[1]
         IN  IF Contains(part, <<".">>) /\ table \notin seen
             THEN <<table>> \o FirstTables(Tail(parts), seen \cup {table})
             ELSE FirstTables(Tail(parts), seen)

\* _normalize_path on the string FindShortestPathTool._run returned
normalize_path(path_str) ==
    IF Contains(path_str, T_No_path_found) \/ path_str = <<>>
    THEN [path |-> <<>>, full_path |-> <<>>, has_full_path |-> FALSE]
    ELSE LET split == Split(path_str, T_arrow)
             parts == [i \in 1..Len(split) |-> Strip(split[i])]
         IN  [path |-> FirstTables(parts, {}),
              full_path |-> path_str,
              has_full_path |-> TRUE]

(***************************************************************************)
(* path_finding_node                                                       *)
(***************************************************************************)
join_keywords == <<
    <<"w","h","o"," ","p","l","a","y","e","d">>,
    <<"w","h","o"," ","s","c","o","r","e","d">>,
    <<"w","h","i","c","h"," ","t","e","a","m">>,
    <<"p","l","a","y","e","r","s"," ","i","n">>,
    <<"m","a","t","c","h","e","s"," ","w","i","t","h">>,
    <<"t","e","a","m","s"," ","t","h","a","t">>,
    <<"p","l","a","y","e","r","s"," ","w","h","o">>,
    <<"g","a","m","e","s"," ","w","h","e","r","e">>,
    <<"b","e","t","w","e","e","n">>,
    <<"a","l","o","n","g"," ","w","i","t","h">>,
    <<"t","o","g","e","t","h","e","r"," ","w","i","t","h">>,
    <<"a","s","s","o","c","i","a","t","e","d"," ","w","i","t","h">>,
    <<"b","e","l","o","n","g","i","n","g"," ","t","o">>,
    <<"o","w","n","e","d"," ","b","y">>,
    <<"m","a","n","a","g","e","d"," ","b","y">>,
    <<"w","o","r","k","i","n","g"," ","o","n">>,
    <<"d","u","r","i","n","g">>,
    <<"b","e","f","o","r","e">>,
    <<"a","f","t","e","r">>,
    <<"w","h","e","n">>,
    <<"w","h","e","r","e">> >>
relationship_indicators == <<
    <<"a","n","d"," ","t","h","e","i","r">>,
    <<"w","i","t","h"," ","t","h","e","i","r">>,
    <<"i","n","c","l","u","d","i","n","g"," ","t","h","e","i","r">>,
    <<"a","l","o","n","g"," ","w","i","t","h">> >>

\* any(k in text for k in keywords)
AnyIn(keywords, text) == \E i \in 1..Len(keywords) : Contains(text, keywords[i])

\* the set of tables named by the relevant columns
TablesOf(columns) == { columns[i].table_name : i \in 1..Len(columns) }

\* table_columns.get(table, ['id'])[0]
FirstColumn(columns, table) ==
    IF table \in TablesOf(columns)
    THEN columns[CHOOSE i \in 1..Len(columns) :
                    /\ columns[i].table_name = table
                    /\ \A j \in 1..(i - 1) : columns[j].table_name # table].column_name
    ELSE <<"i","d">>

RECURSIVE Orders(_)
\* the orders list(tables) can give a set (set iteration order is arbitrary)
Orders(S) ==
    IF S = {} THEN { <<>> }
    ELSE UNION { { <<x>> \o o : o \in Orders(S \ {x}) } : x \in S }

\* source_col and target_col of the i-th consecutive pair of table_list
SourceCol(columns, table_list, i) ==
    NodeName(table_list[i], FirstColumn(columns, table_list[i]))
TargetCol(columns, table_list, i) ==
    NodeName(table_list[i + 1], FirstColumn(columns, table_list[i + 1]))

RECURSIVE PairResults(_, _, _)
\* what the path tool can answer for the first k consecutive pairs of
\* table_list, one outcome per pair
PairResults(columns, table_list, k) ==
    IF k <= 0 THEN { <<>> }
    ELSE { p \o <<r>> :
             p \in PairResults(columns, table_list, k - 1),
             r \in FindShortestPathTool_run(SourceCol(columns, table_list, k),
                                            TargetCol(columns, table_list, k)) }

RECURSIVE FoundPaths_StopsAtRaise(_)
\* the paths of the pairs before the first one that raised
FoundPaths_StopsAtRaise(results) ==
    IF results = <<>> \/ Head(results).raised THEN <<>>
    ELSE <<normalize_path(Head(results).text)>> \o FoundPaths_StopsAtRaise(Tail(results))

RECURSIVE FoundPaths(_)
\* paths.append(self._normalize_path(path)) for every pair that did not raise
FoundPaths(results) ==
    IF results = <<>> THEN <<>>
    ELSE (IF Head(results).raised THEN <<>> ELSE <<normalize_path(Head(results).text)>>)
         \o FoundPaths(Tail(results))

RECURSIVE PathErrors(_, _, _)
\* path_errors.append(...) for every pair that raised: (source, target)
PathErrors(table_list, results, i) ==
    IF i > Len(results) THEN <<>>
    ELSE (IF results[i].raised THEN << <<table_list[i], table_list[i + 1]>> >> ELSE <<>>)
         \o PathErrors(table_list, results, i + 1)

\* should_skip with the table count compared to 1 instead of 2
should_skip_NoTables(s) ==
    /\ Cardinality(TablesOf(s.relevant_columns)) < 1
    /\ ~InList("FindShortestPath", s.required_actions)
    /\ ~AnyIn(join_keywords, Lower(s.question))
    /\ ~AnyIn(relationship_indicators, Lower(s.question))

\* path_finding_node: should_skip
should_skip(s) ==
    LET tables == TablesOf(s.relevant_columns)
        question == Lower(s.question)
        planning_requires_path == InList("FindShortestPath", s.required_actions)
        has_join_keywords == AnyIn(join_keywords, question)
        suggests_relationships == AnyIn(relationship_indicators, question)
    IN  /\ Cardinality(tables) < 2
        /\ ~planning_requires_path
        /\ ~has_join_keywords
        /\ ~suggests_relationships

\* path_finding_node: the number of path_tool._run calls it makes, one per
\* consecutive pair of table_list, none when it returns early or has no tool
path_finding_calls(s, has_tool, table_list) ==
    IF should_skip(s) \/ Cardinality(TablesOf(s.relevant_columns)) < 2 \/ ~has_tool
    THEN 0
    ELSE Len(table_list) - 1

\* path_finding_node; table_list is list(tables) and results what the path
\* tool did for each consecutive pair of it
path_finding_node(s, has_tool, table_list, results) ==
    LET tables == TablesOf(s.relevant_columns)
        planning_requires_path == InList("FindShortestPath", s.required_actions)
        paths == IF has_tool THEN FoundPaths(results) ELSE <<>>
        path_errors == IF has_tool THEN PathErrors(table_list, results, 1) ELSE <<>>
    IN  IF should_skip(s)
        THEN [s EXCEPT !.needs_path_finding = FALSE,
                       !.current_step = "path_finding_skipped"]
        ELSE IF Cardinality(tables) < 2
        THEN [s EXCEPT !.needs_path_finding = FALSE,
                       !.path_finding_deferred = TRUE,
                       !.single_table_with_join_indicators = TRUE,
                       !.current_step = "path_finding_deferred"]
        ELSE IF planning_requires_path /\ Len(paths) = 0
        THEN [s EXCEPT !.join_paths = <<>>,
                       !.path_finding_failed = TRUE,
                       !.path_finding_errors = path_errors,
                       !.needs_path_finding = FALSE,
                       !.current_step = "path_finding_failed"]
        ELSE [s EXCEPT !.join_paths = paths,
                       !.path_finding_failed = FALSE,
                       !.needs_path_finding = FALSE,
                       !.current_step = "path_finding_complete"]

(***************************************************************************)
(* sql_generation_node and its inline fallback path discovery              *)
(***************************************************************************)
join_error_indicators == <<
    <<"n","o"," ","s","u","c","h"," ","c","o","l","u","m","n">>,
    <<"a","m","b","i","g","u","o","u","s"," ","c","o","l","u","m","n">>,
    <<"u","n","k","n","o","w","n"," ","c","o","l","u","m","n">>,
    <<"t","a","b","l","e"," ","n","o","t"," ","f","o","u","n","d">>,
    <<"c","a","n","n","o","t"," ","f","i","n","d"," ","t","a","b","l","e">>,
    <<"c","r","o","s","s"," ","j","o","i","n">>,
    <<"c","a","r","t","e","s","i","a","n"," ","p","r","o","d","u","c","t">>,
    <<"m","i","s","s","i","n","g"," ","j","o","i","n">>,
    <<"f","o","r","e","i","g","n"," ","k","e","y">> >>

\* _is_join_related_error
is_join_related_error(error) == AnyIn(join_error_indicators, Lower(error))

IsUpper(c) == c \in UpperSet
IsLetter(c) == c \in LetterSet
IsWordChar(c) == c \in LetterSet \/ c \in DigitSet

RECURSIVE RunEnd(_, _)
\* last index of the run of letters and underscores that starts at i
RunEnd(text, i) ==
    IF i < Len(text) /\ IsLetter(text[i + 1]) THEN RunEnd(text, i + 1) ELSE i

\* re.findall(r'\b([A-Z][a-zA-Z_]*)\b', text), as a set
CapitalizedWords(text) ==
    { SubSeq(text, i, RunEnd(text, i)) :
        i \in { k \in 1..Len(text) :
                  /\ IsUpper(text[k])
                  /\ (k = 1 \/ ~IsWordChar(text[k - 1]))
                  /\ (RunEnd(text, k) = Len(text)
                        \/ ~IsWordChar(text[RunEnd(text, k) + 1])) } }

\* the tables _perform_fallback_path_finding pairs up
FallbackTables(s) ==
    TablesOf(s.relevant_columns)
    \cup (IF s.execution_error # <<>> THEN CapitalizedWords(s.execution_error) ELSE {})

\* _perform_fallback_path_finding: {} or {"join_paths", "path_finding_deferred"}
perform_fallback_path_finding(s, has_tool, results) ==
    IF Cardinality(FallbackTables(s)) < 2
    THEN [empty |-> TRUE, join_paths |-> <<>>]
    ELSE [empty |-> FALSE,
          join_paths |-> IF has_tool THEN FoundPaths(results) ELSE <<>>]

\* _perform_fallback_path_finding: the number of path_tool._run calls it makes
fallback_calls(s, has_tool, table_list) ==
    IF has_tool /\ Len(table_list) >= 2 THEN Len(table_list) - 1 ELSE 0

\* a fallback taken for a deferred search only, never for a join-related error
NeedsFallback_DeferredOnly(s) == s.path_finding_deferred /\ s.join_paths = <<>>

\* whether sql_generation_node calls the fallback on entry
NeedsFallback(s) ==
    \/ s.execution_error # <<>> /\ is_join_related_error(s.execution_error)
         /\ s.join_paths = <<>>
    \/ s.path_finding_deferred /\ s.join_paths = <<>>

\* the state sql_generation_node goes on with after the fallback
AfterFallback(s, has_tool, results) ==
    IF NeedsFallback(s)
    THEN LET fallback_result == perform_fallback_path_finding(s, has_tool, results)
         IN  IF fallback_result.join_paths # <<>>
             THEN [s EXCEPT !.join_paths = fallback_result.join_paths,
                            !.path_finding_deferred = FALSE]
             ELSE s
    ELSE s

\* sql_generation_node; response is the LLM response after parsing: the
\* fields of its JSON object, or (json = FALSE) the SQL the raw text gives
sql_generation_node(s, has_tool, results, response) ==
    LET current_iteration == s.iteration
        st == AfterFallback(s, has_tool, results)
        selected_paths == IF response.json THEN response.selected_paths ELSE <<>>
        reasoning == IF response.json THEN response.reasoning
                     ELSE "Failed to parse structured response"
    IN  [st EXCEPT !.sql_query = response.sql,
                   !.sql_queries = <<response.sql>>,
                   !.selected_path_indices = selected_paths,
                   !.path_selection_reasoning = reasoning,
                   !.needs_sql_generation = FALSE,
                   !.ready_to_execute = FALSE,
                   !.awaiting_confirmation = TRUE,
                   !.confirmation_type = "sql",
                   !.iteration = current_iteration + 1,
                   !.current_step = "sql_generated"]

(***************************************************************************)
(* Conditional edges (routing functions) and the graph of _build_graph.    *)
(***************************************************************************)
should_request_confirmation(s, hi) ==
    IF hi /\ s.awaiting_confirmation /\ s.confirmation_type = "plan"
    THEN "human_interaction"
    ELSE "check_column_search"

should_search_columns(s) ==
    IF s.needs_column_search THEN "search_columns" ELSE "check_value_search"

should_search_values(s) ==
    IF s.needs_value_search THEN "search_values" ELSE "check_path_finding"

should_find_paths(s) ==
    IF s.needs_path_finding THEN "find_paths" ELSE "generate_sql"

should_confirm_sql(s, hi) ==
    IF hi /\ s.awaiting_confirmation /\ s.confirmation_type = "sql"
    THEN "human_interaction"
    ELSE "execute_sql"

\* the retry decision sending every failed attempt back to the column search
should_retry_or_finish_AlwaysResearch(s, hi) ==
    IF s.execution_error # <<>> /\ s.iteration < s.max_iterations
    THEN IF hi /\ s.iteration = s.max_iterations - 1
         THEN "human_interaction"
         ELSE "search_columns"
    ELSE IF Truthy(s.execution_result) THEN "answer"
    ELSE IF s.execution_error # <<>> THEN "answer"
    ELSE "END"

\* the retry decision with the attempt bound off by one (<= for <)
should_retry_or_finish_OneMore(s, hi) ==
    IF s.execution_error # <<>> /\ s.iteration <= s.max_iterations
    THEN IF hi /\ s.iteration = s.max_iterations - 1
         THEN "human_interaction"
         ELSE IF Contains(Lower(s.execution_error), T_no_such_column)
              THEN "search_columns"
              ELSE "generate_sql"
    ELSE IF Truthy(s.execution_result) THEN "answer"
    ELSE IF s.execution_error # <<>> THEN "answer"
    ELSE "END"

\* the retry decision matching "no such column" without lower-casing the error
should_retry_or_finish_CaseSensitive(s, hi) ==
    IF s.execution_error # <<>> /\ s.iteration < s.max_iterations
    THEN IF hi /\ s.iteration = s.max_iterations - 1
         THEN "human_interaction"
         ELSE IF Contains(s.execution_error, T_no_such_column)
              THEN "search_columns"
              ELSE "generate_sql"
    ELSE IF Truthy(s.execution_result) THEN "answer"
    ELSE IF s.execution_error # <<>> THEN "answer"
    ELSE "END"

should_retry_or_finish_GivesUpEarly(s, hi) ==
    IF s.execution_error # <<>> /\ s.iteration < s.max_iterations - 1
    THEN IF hi /\ s.iteration = s.max_iterations - 1
         THEN "human_interaction"
         ELSE IF Contains(Lower(s.execution_error), T_no_such_column)
              THEN "search_columns"
              ELSE "generate_sql"
    ELSE IF Truthy(s.execution_result) THEN "answer"
    ELSE IF s.execution_error # <<>> THEN "answer"
    ELSE "END"

should_retry_or_finish(s, hi) ==
    IF s.execution_error # <<>> /\ s.iteration < s.max_iterations
    THEN IF hi /\ s.iteration = s.max_iterations - 1
         THEN "human_interaction"
         ELSE IF Contains(Lower(s.execution_error), T_no_such_column)
              THEN "search_columns"
              ELSE "generate_sql"
    ELSE IF Truthy(s.execution_result) THEN "answer"
    ELSE IF s.execution_error # <<>> THEN "answer"
    ELSE "END"

\* the node (or END) that follows node, by the edges of _build_graph, for
\* the state s the node left behind
NextNode(node, s, hi) ==
    CASE node = "planning" ->
           IF should_request_confirmation(s, hi) = "human_interaction"
           THEN "human_interaction" ELSE "search_columns"
      [] node = "human_interaction" ->
           IF should_search_columns(s) = "search_columns"
           THEN "search_columns" ELSE "search_values"
      [] node = "search_columns" ->
           IF should_search_values(s) = "search_values"
           THEN "search_values" ELSE "find_paths"
      [] node = "search_values" ->
           IF should_find_paths(s) = "find_paths"
           THEN "find_paths" ELSE "generate_sql"
      [] node = "find_paths" -> "generate_sql"
      [] node = "generate_sql" ->
           IF should_confirm_sql(s, hi) = "human_interaction"
           THEN "human_interaction" ELSE "execute_sql"
      [] node = "execute_sql" -> should_retry_or_finish(s, hi)
      [] node = "answer" -> "END"

(***************************************************************************)
(* What the caller, the LLM and the database can supply.                   *)
(***************************************************************************)
Q_list == <<"l","i","s","t"," ","a","l","l"," ","p","l","a","y","e","r"," ","n","a","m","e","s">>
Q_their == <<"p","l","a","y","e","r","s"," ","a","n","d"," ","t","h","e","i","r"," ","t","e","a","m"," ","n","a","m","e","s">>
Questions == {Q_list, Q_their}

\* env = "any": an LLM and a database that may answer anything of the sets
\* below, run with max_iterations up to SmallMaxIterations.
\* env = "rejecting": a database that rejects every statement and an LLM stub
\* that always answers the same, run with max_iterations = LargeMaxIterations.
Envs == {"any", "rejecting"}

MaxIterationsValues(e) ==
    IF e = "any" THEN 0..SmallMaxIterations ELSE {LargeMaxIterations}

\* the tools the workflow is constructed with: all four, or (rejecting) none
ToolSets(e) == IF e = "any" THEN {AllTools} ELSE {AllTools, {}}

ActionLists(e) ==
    IF e = "any"
    THEN { <<"SearchColumn", "GenerateSQL">>,
           <<"SearchValue", "FindShortestPath", "GenerateSQL">>,
           <<"GenerateSQL">> }
    ELSE { <<"SearchColumn", "SearchValue", "FindShortestPath", "GenerateSQL", "ExecuteSQL">>,
           <<"SearchColumn", "FindShortestPath", "GenerateSQL", "ExecuteSQL">> }

FoundColumns(e) ==
    IF e = "any"
    THEN { <<>>,
           <<Col(N_Player, N_player_name), Col(N_Player, N_id), Col(N_Player, N_team_id)>>,
           <<Col(N_Player, N_player_name), Col(N_Team, N_team_name), Col(N_Team, N_id)>>,
           <<Col(N_Player, N_player_name), Col(N_Team, N_team_name), Col(N_Player, N_player_name)>> }
    ELSE { <<Col(N_Player, N_player_name), Col(N_Team, N_team_name), Col(N_Team, N_id)>> }

ValueLists(e) ==
    IF e = "any" THEN { <<>>, <<"Barcelona">> } ELSE { <<"Barcelona">> }

S_select == <<"S","E","L","E","C","T"," ","1">>
GenResponses(e) ==
    IF e = "any"
    THEN { [json |-> TRUE, selected_paths |-> <<0>>, reasoning |-> "r", sql |-> S_select],
           [json |-> FALSE, selected_paths |-> <<>>, reasoning |-> "", sql |-> <<>>] }
    ELSE { [json |-> TRUE, selected_paths |-> <<0>>, reasoning |-> "r", sql |-> S_select] }

DbOutcomes(e) ==
    IF e = "any"
    THEN { DbReturned(<<>>), DbReturned(<< <<C_Messi>> >>), DbReturned(<< <<C_ERROR_note>> >>),
           DbRaised(M_no_such_column), DbRaised(M_no_such_Team), DbRaised(M_syntax) }
    ELSE { DbRaised(M_No_Such_Column), DbRaised(M_syntax) }

AnswerTexts == { <<>>, <<"o","k">> }

(***************************************************************************)
(* The engine: one action per node visit.                                  *)
(***************************************************************************)
Has(tool) == tool \in tools

\* no Database call is studied on its own during a workflow run
NoCall == [kind |-> "none"]

\* the engine runs node, merges what it returned and follows its edge
Visit(node, returned) ==
    /\ pc = node
    /\ step < RecursionLimit
    /\ state' = MergeState(state, returned)
    /\ step' = step + 1
    /\ last' = node
    /\ visits' = [visits EXCEPT ![node] = @ + 1]
    /\ LET next == NextNode(node, state', enable_human_interaction)
       IN  pc' \in IF next = "END" /\ step' = RecursionLimit
                   THEN {"END", "GraphRecursionError"}
                   ELSE {next}
    /\ UNCHANGED <<enable_human_interaction, tools, env, call>>

Planning ==
    /\ \E actions \in ActionLists(env) : Visit("planning", planning_node(state, actions))
    /\ path_searches' = 0
    /\ UNCHANGED all_failed

HumanInteraction ==
    /\ Visit("human_interaction", human_interaction_node(state))
    /\ path_searches' = 0
    /\ UNCHANGED all_failed

ColumnSearch ==
    /\ \E found \in FoundColumns(env) :
          Visit("search_columns", column_search_node(state, Has("SearchColumn"), found))
    /\ path_searches' = 0
    /\ UNCHANGED all_failed

ValueSearch ==
    /\ \E values \in ValueLists(env), raised \in SUBSET (1..1) :
          Visit("search_values",
                value_search_node(state, Has("SearchValue"), values,
                                  [i \in 1..Len(values) |-> <<values[i]>>], raised))
    /\ path_searches' = 0
    /\ UNCHANGED all_failed

PathFinding ==
    /\ \E table_list \in Orders(TablesOf(state.relevant_columns)) :
       LET n == path_finding_calls(state, Has("FindShortestPath"), table_list)
       IN  \E results \in PairResults(state.relevant_columns, table_list, n) :
              /\ Visit("find_paths",
                       path_finding_node(state, Has("FindShortestPath"), table_list, results))
              /\ path_searches' = n
    /\ UNCHANGED all_failed

SqlGeneration ==
    /\ \E table_list \in (IF NeedsFallback(state) THEN Orders(FallbackTables(state))
                          ELSE { <<>> }) :
       LET n == fallback_calls(state, Has("FindShortestPath"), table_list)
       IN  \E results \in PairResults(state.relevant_columns, table_list, n) :
           \E response \in GenResponses(env) :
              /\ Visit("generate_sql",
                       sql_generation_node(state, Has("FindShortestPath"), results, response))
              /\ path_searches' = n
    /\ UNCHANGED all_failed

SqlExecution ==
    /\ \E db \in DbOutcomes(env) :
          Visit("execute_sql", sql_execution_node(state, Has("ExecuteSQL"), db))
    /\ all_failed' = (all_failed /\ state'.execution_error # <<>>)
    /\ path_searches' = 0

AnswerGeneration ==
    /\ \E content \in AnswerTexts : Visit("answer", answer_generation_node(state, content))
    /\ path_searches' = 0
    /\ UNCHANGED all_failed

\* the engine's step cap: GraphRecursionError escapes app.invoke and query()
RecursionError ==
    /\ pc \in NodeNames
    /\ step = RecursionLimit
    /\ pc' = "GraphRecursionError"
    /\ UNCHANGED <<state, last, step, visits, enable_human_interaction, tools, all_failed, env,
                   path_searches, call>>

Init ==
    /\ env \in Envs
    /\ \E question \in Questions, max_iterations \in MaxIterationsValues(env) :
          state = InitialState(question, max_iterations)
    /\ pc = "planning"
    /\ last = "start"
    /\ step = 0
    /\ visits = [n \in NodeNames |-> 0]
    /\ enable_human_interaction \in BOOLEAN
    /\ tools \in ToolSets(env)
    /\ all_failed = TRUE
    /\ path_searches = 0
    /\ call = NoCall

Next ==
    \/ Planning
    \/ HumanInteraction
    \/ ColumnSearch
    \/ ValueSearch
    \/ PathFinding
    \/ SqlGeneration
    \/ SqlExecution
    \/ AnswerGeneration
    \/ RecursionError

Spec == Init /\ [][Next]_vars

(***************************************************************************)
(* Database.find_shortest_path on its own: a Database over one of a few    *)
(* schemas answers a bounded number of path queries.                       *)
(***************************************************************************)
\* the workflow is not running
Idle ==
    /\ state = InitialState(Q_list, 0)
    /\ pc = "END"
    /\ last = "start"
    /\ step = 0
    /\ visits = [n \in NodeNames |-> 0]
    /\ enable_human_interaction = FALSE
    /\ tools = AllTools
    /\ all_failed = TRUE
    /\ env = "any"
    /\ path_searches = 0

IdleVars ==
    <<state, pc, last, step, visits, enable_human_interaction, tools, all_failed, env,
      path_searches>>

\* number of path queries one Database answers
MaxPathCalls == 3

N_League == <<"L","e","a","g","u","e">>
N_nickname == <<"n","i","c","k","n","a","m","e">>

\* the foreign keys a schema may declare
CandidateFks ==
    << <<N_Player, N_team_id, N_Team, N_id>>,
       <<N_Player, N_id, N_Team, N_id>>,
       <<N_Team, N_id, N_League, N_id>>,
       <<N_Player, N_id, N_League, N_id>> >>

RECURSIVE Pick(_, _, _)
\* the entries of l whose index is in S, in the order of l
Pick(l, S, i) ==
    IF i > Len(l) THEN <<>>
    ELSE (IF i \in S THEN <<l[i]>> ELSE <<>>) \o Pick(l, S, i + 1)

\* the databases: tables Player, Team and League with any of the foreign keys
Schemas ==
    { [columns |-> get_all_columns \o <<Col(N_League, N_id)>>,
       fks |-> Pick(CandidateFks, S, 1)] : S \in SUBSET (1..Len(CandidateFks)) }

\* the identifiers a caller asks about: columns of the three tables, and a
\* well-formed identifier of a column no schema has
Endpoints ==
    { NodeName(N_Player, N_id), NodeName(N_Player, N_player_name),
      NodeName(N_Team, N_id), NodeName(N_Team, N_team_name),
      NodeName(N_League, N_id), NodeName(N_Player, N_nickname) }

NoResult == [start |-> <<>>, end |-> <<>>, raised |-> FALSE, path |-> <<>>]

\* Database.find_shortest_path tabulated: the answer of each database to each
\* query
Answers ==
    [db \in Schemas |-> [start \in Endpoints |-> [end \in Endpoints |->
        Database_find_shortest_path(db, start, end)]]]

PathInit ==
    /\ Idle
    /\ \E db \in Schemas :
          call = [kind |-> "path", db |-> db, n |-> 0, first |-> NoResult, latest |-> NoResult]

\* one call Database.find_shortest_path(start, end); call keeps the first
\* query answered and the latest
FindShortestPath ==
    /\ call.kind = "path"
    /\ call.n < MaxPathCalls
    /\ \E start \in Endpoints, end \in Endpoints :
          LET r == Answers[call.db][start][end]
              entry == [start |-> start, end |-> end, raised |-> r.raised, path |-> r.path]
          IN  call' = [call EXCEPT !.n = @ + 1,
                                   !.first = IF call.n = 0 THEN entry ELSE @,
                                   !.latest = entry]
    /\ UNCHANGED IdleVars

PathNext == FindShortestPath

PathSpec == PathInit /\ [][PathNext]_vars

(***************************************************************************)
(* Database.search_values and SearchValueTool._run on their own: one call  *)
(* on a small database of text and non-text columns.                       *)
(***************************************************************************)
ToUpper == [c \in { LowerChars[i] : i \in 1..Len(LowerChars) } |->
              UpperChars[CHOOSE i \in 1..Len(LowerChars) : LowerChars[i] = c]]

\* str.upper()
Upper(s) == [i \in 1..Len(s) |-> IF s[i] \in DOMAIN ToUpper THEN ToUpper[s[i]] ELSE s[i]]

T_TEXT == <<"T","E","X","T">>
T_VARCHAR == <<"V","A","R","C","H","A","R">>
T_CHAR == <<"C","H","A","R">>

\* a type test that lets every column through
IsTextType_Any(type) == TRUE

\* search_values: the column's declared type makes it a text column
IsTextType(type) ==
    LET col_type == Upper(type)
    IN  ~(/\ ~Contains(col_type, T_TEXT)
          /\ ~Contains(col_type, T_VARCHAR)
          /\ ~Contains(col_type, T_CHAR))

N_code == <<"c","o","d","e">>
Ty_TEXT == <<"T","E","X","T">>
Ty_varchar == <<"v","a","r","c","h","a","r","(","2","0",")">>
Ty_INTEGER == <<"I","N","T","E","G","E","R">>

\* the tables of the database in get_tables order; each column with its
\* declared type and its distinct non-empty values in SELECT order
ValueTables ==
    << [name |-> N_Player,
        columns |-> << [name |-> N_player_name, type |-> Ty_TEXT,
                        values |-> << <<"A","b">>, <<"b"," ","a">> >>],
                       [name |-> N_code, type |-> Ty_INTEGER,
                        values |-> << <<"a","b">> >>] >>],
       [name |-> N_Team,
        columns |-> << [name |-> N_team_name, type |-> Ty_varchar,
                        values |-> << <<"a","B">> >>] >>] >>

RECURSIVE MatchingValues(_, _, _, _, _)
\* the candidates one column gives: its values that contain the query,
\* whatever the case
MatchingValues(query, tbl, col, values, i) ==
    IF i > Len(values) THEN <<>>
    ELSE (IF Contains(Lower(values[i]), Lower(query))
          THEN << [contents |-> values[i], table |-> tbl, column |-> col] >>
          ELSE <<>>)
         \o MatchingValues(query, tbl, col, values, i + 1)

RECURSIVE ColumnCandidates(_, _, _, _)
\* the candidates of the columns of one table from the j-th on; only the
\* searched columns (all, or the one named) of a text type are read
ColumnCandidates(query, t, column, j) ==
    IF j > Len(t.columns) THEN <<>>
    ELSE LET c == t.columns[j]
         IN  (IF (column = <<>> \/ c.name = column) /\ IsTextType(c.type)
              THEN MatchingValues(query, t.name, c.name, c.values, 1)
              ELSE <<>>)
             \o ColumnCandidates(query, t, column, j + 1)

RECURSIVE TableCandidates(_, _, _, _)
\* all_candidates: the searched tables (all, or the one named) in order
TableCandidates(query, table, column, i) ==
    IF i > Len(ValueTables) THEN <<>>
    ELSE (IF table = <<>> \/ ValueTables[i].name = table
          THEN ColumnCandidates(query, ValueTables[i], column, 1)
          ELSE <<>>)
         \o TableCandidates(query, table, column, i + 1)

RECURSIVE InsertByScore_Ascending(_, _, _)
\* the same with the smaller scores first
InsertByScore_Ascending(sorted, scores, k) ==
    IF sorted = <<>> THEN <<k>>
    ELSE IF scores[Head(sorted)] <= scores[k]
         THEN <<Head(sorted)>> \o InsertByScore_Ascending(Tail(sorted), scores, k)
         ELSE <<k>> \o sorted

RECURSIVE InsertByScore(_, _, _)
\* sorted, a list of indices ordered by descending score, with index k put
\* behind every index whose score is not smaller
InsertByScore(sorted, scores, k) ==
    IF sorted = <<>> THEN <<k>>
    ELSE IF scores[Head(sorted)] >= scores[k]
         THEN <<Head(sorted)>> \o InsertByScore(Tail(sorted), scores, k)
         ELSE <<k>> \o sorted

RECURSIVE SortByScore(_, _)
\* all_candidates.sort(key=score, reverse=True): the indices 1..n in the
\* sorted order; candidates of equal score keep their order
SortByScore(scores, n) ==
    IF n = 0 THEN <<>> ELSE InsertByScore(SortByScore(scores, n - 1), scores, n)

\* Database.search_values; scores is what bm25.get_scores gives for the
\* candidates, in their order
search_values(query, table, column, limit, scores) ==
    LET all_candidates == TableCandidates(query, table, column, 1)
    IN  IF all_candidates = <<>> THEN <<>>
        ELSE LET order == SortByScore(scores, Len(all_candidates))
                 sorted == [i \in 1..Len(order) |-> all_candidates[order[i]]]
             IN  Take(sorted, limit)

RECURSIVE ExtendResults(_, _, _, _, _, _)
\* SearchValueTool._run for a list: all_results.extend(results) for the
\* queries from the i-th on
ExtendResults(queries, table, column, limit, scores, i) ==
    IF i > Len(queries) THEN <<>>
    ELSE search_values(queries[i], table, column, limit, scores[i])
         \o ExtendResults(queries, table, column, limit, scores, i + 1)

\* SearchValueTool._run with a list of queries
SearchValueTool_run(queries, table, column, limit, scores) ==
    Take(ExtendResults(queries, table, column, limit, scores, 1), limit)

\* largest limit asked for, and largest score of a candidate
MaxLimit == 2
MaxScore == 1
\* most queries of one batched search
MaxQueries == 2

Q_b == <<"b">>
Q_AB == <<"A","B">>
Q_z == <<"z">>
ValueQueries == { <<>>, Q_b, Q_AB, Q_z }
ValueTableArgs == { <<>>, N_Player, N_Team, N_League }
ValueColumnArgs == { <<>>, N_player_name, N_code }
Limits == (0 - 1)..MaxLimit

\* what bm25.get_scores can give for n candidates
ScoresFor(n) == [1..n -> 0..MaxScore]

\* the lists of at most MaxQueries queries
QueryLists == UNION { [1..n -> ValueQueries \ {<<>>}] : n \in 0..MaxQueries }

ValueInit ==
    /\ Idle
    /\ call = [kind |-> "value", op |-> "none"]

\* one call Database.search_values(query, table, column, limit)
SearchValues ==
    /\ call.kind = "value" /\ call.op = "none"
    /\ \E query \in ValueQueries, table \in ValueTableArgs, column \in ValueColumnArgs,
          limit \in Limits :
       \E scores \in ScoresFor(Len(TableCandidates(query, table, column, 1))) :
          call' = [kind |-> "value", op |-> "search_values",
                   query |-> query, queries |-> <<>>,
                   table |-> table, column |-> column, limit |-> limit,
                   candidates |-> TableCandidates(query, table, column, 1),
                   scores |-> scores,
                   per_query |-> <<>>,
                   results |-> search_values(query, table, column, limit, scores)]
    /\ UNCHANGED IdleVars

\* one call SearchValueTool._run(queries, table, None, limit) with a list
SearchValueToolRun ==
    /\ call.kind = "value" /\ call.op = "none"
    /\ \E queries \in QueryLists, table \in {<<>>, N_Player}, limit \in Limits :
       \E scores \in { sc \in [1..Len(queries) -> UNION { ScoresFor(n) : n \in 0..3 }] :
                         \A i \in 1..Len(queries) :
                            DOMAIN sc[i] = 1..Len(TableCandidates(queries[i], table, <<>>, 1)) } :
          call' = [kind |-> "value", op |-> "tool_run",
                   query |-> <<>>, queries |-> queries,
                   table |-> table, column |-> <<>>, limit |-> limit,
                   candidates |-> <<>>,
                   scores |-> scores,
                   per_query |-> [i \in 1..Len(queries) |->
                                    search_values(queries[i], table, <<>>, limit, scores[i])],
                   results |-> SearchValueTool_run(queries, table, <<>>, limit, scores)]
    /\ UNCHANGED IdleVars

ValueNext == SearchValues \/ SearchValueToolRun

ValueSpec == ValueInit /\ [][ValueNext]_vars

(***************************************************************************)
(* Running query() twice on one question with an LLM stub and a database   *)
(* that always answer the same.  call keeps the nodes visited and the      *)
(* state after each of them, for the first run and for the current one.    *)
(***************************************************************************)
\* a deterministic stub: the one answer given at each kind of node
Stubs ==
    [ actions : ActionLists("any"),
      found : FoundColumns("any"),
      values : { <<"Barcelona">> },
      response : GenResponses("any"),
      db : { DbReturned(<< <<C_Messi>> >>), DbRaised(M_no_such_column) },
      content : { <<"o","k">> } ]

\* list(tables) of the node pc points to (<<>> where no set is listed)
TableLists ==
    IF pc = "find_paths" THEN Orders(TablesOf(state.relevant_columns))
    ELSE IF pc = "generate_sql" /\ NeedsFallback(state) THEN Orders(FallbackTables(state))
    ELSE { <<>> }

\* the path_tool._run calls of the node pc points to
PathCalls(table_list) ==
    IF pc = "find_paths" THEN path_finding_calls(state, Has("FindShortestPath"), table_list)
    ELSE IF pc = "generate_sql" THEN fallback_calls(state, Has("FindShortestPath"), table_list)
    ELSE 0

\* what the node pc points to returns under the stub
StubReturned(stub, table_list, results) ==
    CASE pc = "planning" -> planning_node(state, stub.actions)
      [] pc = "human_interaction" -> human_interaction_node(state)
      [] pc = "search_columns" ->
           column_search_node(state, Has("SearchColumn"), stub.found)
      [] pc = "search_values" ->
           value_search_node(state, Has("SearchValue"), stub.values,
                             [i \in 1..Len(stub.values) |-> <<stub.values[i]>>], {})
      [] pc = "find_paths" ->
           path_finding_node(state, Has("FindShortestPath"), table_list, results)
      [] pc = "generate_sql" ->
           sql_generation_node(state, Has("FindShortestPath"), results, stub.response)
      [] pc = "execute_sql" -> sql_execution_node(state, Has("ExecuteSQL"), stub.db)
      [] pc = "answer" -> answer_generation_node(state, stub.content)

RerunInit ==
    /\ env = "any"
    /\ \E question \in Questions, max_iterations \in MaxIterationsValues("any") :
          state = InitialState(question, max_iterations)
    /\ pc = "planning"
    /\ last = "start"
    /\ step = 0
    /\ visits = [n \in NodeNames |-> 0]
    /\ enable_human_interaction \in BOOLEAN
    /\ tools = AllTools
    /\ all_failed = TRUE
    /\ path_searches = 0
    /\ \E stub \in Stubs :
          call = [kind |-> "rerun", stub |-> stub, run |-> 1, first |-> <<>>, trace |-> <<>>]

\* app.invoke runs the node pc points to, merges what it returned and follows
\* its edge
StubVisit ==
    /\ pc \in NodeNames
    /\ step < RecursionLimit
    /\ \E table_list \in TableLists :
       \E results \in PairResults(state.relevant_columns, table_list, PathCalls(table_list)) :
          /\ state' = MergeState(state, StubReturned(call.stub, table_list, results))
          /\ path_searches' = PathCalls(table_list)
    /\ step' = step + 1
    /\ last' = pc
    /\ visits' = [visits EXCEPT ![pc] = @ + 1]
    /\ LET next == NextNode(pc, state', enable_human_interaction)
       IN  pc' \in IF next = "END" /\ step' = RecursionLimit
                   THEN {"END", "GraphRecursionError"}
                   ELSE {next}
    /\ all_failed' = IF pc = "execute_sql"
                     THEN all_failed /\ state'.execution_error # <<>>
                     ELSE all_failed
    /\ call' = [call EXCEPT !.trace = Append(@, [node |-> pc, state |-> state'])]
    /\ UNCHANGED <<enable_human_interaction, tools, env>>

\* query() has returned or raised and is called again with the same question
\* and max_iterations
Rerun ==
    /\ pc \in {"END", "GraphRecursionError"}
    /\ call.run = 1
    /\ state' = InitialState(state.question, state.max_iterations)
    /\ pc' = "planning"
    /\ last' = "start"
    /\ step' = 0
    /\ visits' = [n \in NodeNames |-> 0]
    /\ all_failed' = TRUE
    /\ path_searches' = 0
    /\ call' = [call EXCEPT !.run = 2, !.first = call.trace, !.trace = <<>>]
    /\ UNCHANGED <<enable_human_interaction, tools, env>>

RerunNext == StubVisit \/ RecursionError \/ Rerun

RerunSpec == RerunInit /\ [][RerunNext]_vars

(***************************************************************************)
(* sql_generation_node: reading the LLM response.  The response text is    *)
(* searched for a fenced JSON object, cleared of trailing commas and given *)
(* to json.loads; when that fails the text itself becomes the SQL.         *)
(***************************************************************************)
\* the backquote character (the one element of a text that is not written
\* as itself)
Backquote == "backquote"
T_fence == <<Backquote, Backquote, Backquote>>
T_fence_json == T_fence \o <<"j","s","o","n">>
T_fence_sql == T_fence \o <<"s","q","l">>

\* s has sub at index i
HasAt(s, sub, i) == i >= 1 /\ i + Len(sub) - 1 <= Len(s) /\ SubSeq(s, i, i + Len(sub) - 1) = sub

RECURSIVE SkipSpace(_, _)
\* the first index at or after i that holds no blank (Len(s) + 1 at the end)
SkipSpace(s, i) == IF i <= Len(s) /\ s[i] = " " THEN SkipSpace(s, i + 1) ELSE i

RECURSIVE BraceEnd(_, _)
\* the lazy group of the pattern: the first "}" at or after j that blanks and
\* a fence follow
BraceEnd(s, j) ==
    IF j > Len(s) THEN 0
    ELSE IF s[j] = "}" /\ HasAt(s, T_fence, SkipSpace(s, j + 1)) THEN j
    ELSE BraceEnd(s, j + 1)

RECURSIVE FencedObject(_, _, _)
\* re.search for a fence, blanks, an object in braces, blanks and a closing
\* fence, tried from index i on
FencedObject(s, fence, i) ==
    LET f == FindFrom(s, fence, i)
    IN  IF f = 0 THEN [found |-> FALSE, text |-> <<>>]
        ELSE LET b == SkipSpace(s, f + Len(fence))
                 e == IF b <= Len(s) /\ s[b] = "{" THEN BraceEnd(s, b + 1) ELSE 0
             IN  IF e # 0 THEN [found |-> TRUE, text |-> SubSeq(s, b, e)]
                 ELSE FencedObject(s, fence, f + 1)

RECURSIVE RemoveTrailingCommas(_, _)
\* re.sub dropping each comma that blanks and a closing brace or bracket
\* follow, from index i on
RemoveTrailingCommas(s, i) ==
    IF i > Len(s) THEN <<>>
    ELSE LET j == SkipSpace(s, i + 1)
         IN  IF s[i] = "," /\ j <= Len(s) /\ s[j] \in {"}", "]"}
             THEN SubSeq(s, i + 1, j) \o RemoveTrailingCommas(s, j + 1)
             ELSE <<s[i]>> \o RemoveTrailingCommas(s, i + 1)

RECURSIVE RemoveAll(_, _)
\* s.replace(sub, "")
RemoveAll(s, sub) ==
    LET i == Find(s, sub)
    IN  IF i = 0 THEN s
        ELSE SubSeq(s, 1, i - 1) \o RemoveAll(SubSeq(s, i + Len(sub), Len(s)), sub)

\* JSON values: strings, non-negative integers, arrays and objects
NoVal == [t |-> "none", s |-> <<>>, n |-> 0, items |-> <<>>]
StrVal(s) == [t |-> "str", s |-> s, n |-> 0, items |-> <<>>]
IntVal(n) == [t |-> "int", s |-> <<>>, n |-> n, items |-> <<>>]
ListVal(items) == [t |-> "list", s |-> <<>>, n |-> 0, items |-> items]
ObjVal(pairs) == [t |-> "obj", s |-> <<>>, n |-> 0, items |-> pairs]
JsonFail == [ok |-> FALSE, next |-> 0, val |-> NoVal]
JsonOk(val, next) == [ok |-> TRUE, next |-> next, val |-> val]

RECURSIVE StringEnd(_, _)
\* index of the quote that closes a string whose text starts at i (0: none;
\* a backslash escape is not read)
StringEnd(s, i) ==
    IF i > Len(s) \/ s[i] = "\\" THEN 0
    ELSE IF s[i] = "\"" THEN i
    ELSE StringEnd(s, i + 1)

RECURSIVE DigitsEnd(_, _)
\* last index of the run of digits that starts at i
DigitsEnd(s, i) == IF i < Len(s) /\ s[i + 1] \in DigitSet THEN DigitsEnd(s, i + 1) ELSE i

DigitValue(c) == CHOOSE d \in 0..9 : <<"0","1","2","3","4","5","6","7","8","9">>[d + 1] = c

RECURSIVE NumberValue(_)
NumberValue(digits) ==
    IF digits = <<>> THEN 0
    ELSE 10 * NumberValue(SubSeq(digits, 1, Len(digits) - 1)) + DigitValue(digits[Len(digits)])

RECURSIVE ParseValue(_, _)
RECURSIVE ParseItems(_, _, _)
RECURSIVE ParsePairs(_, _, _)

\* the JSON value that starts at index i
ParseValue(s, i) ==
    IF i > Len(s) THEN JsonFail
    ELSE IF s[i] = "\""
    THEN LET e == StringEnd(s, i + 1)
         IN  IF e = 0 THEN JsonFail ELSE JsonOk(StrVal(SubSeq(s, i + 1, e - 1)), e + 1)
    ELSE IF s[i] \in DigitSet
    THEN LET e == DigitsEnd(s, i)
         IN  IF s[i] = "0" /\ e > i THEN JsonFail
             ELSE JsonOk(IntVal(NumberValue(SubSeq(s, i, e))), e + 1)
    ELSE IF s[i] = "["
    THEN LET j == SkipSpace(s, i + 1)
         IN  IF j <= Len(s) /\ s[j] = "]" THEN JsonOk(ListVal(<<>>), j + 1)
             ELSE ParseItems(s, j, <<>>)
    ELSE IF s[i] = "{"
    THEN LET j == SkipSpace(s, i + 1)
         IN  IF j <= Len(s) /\ s[j] = "}" THEN JsonOk(ObjVal(<<>>), j + 1)
             ELSE ParsePairs(s, j, <<>>)
    ELSE JsonFail

\* the rest of an array: a value, then "," and more, or "]"
ParseItems(s, i, acc) ==
    LET v == ParseValue(s, i)
        j == SkipSpace(s, v.next)
    IN  IF ~v.ok \/ j > Len(s) THEN JsonFail
        ELSE IF s[j] = "," THEN ParseItems(s, SkipSpace(s, j + 1), Append(acc, v.val))
        ELSE IF s[j] = "]" THEN JsonOk(ListVal(Append(acc, v.val)), j + 1)
        ELSE JsonFail

\* the rest of an object: "key": value, then "," and more, or "}"
ParsePairs(s, i, acc) ==
    LET k == ParseValue(s, i)
        c == SkipSpace(s, k.next)
        v == ParseValue(s, SkipSpace(s, c + 1))
        j == SkipSpace(s, v.next)
    IN  IF ~k.ok \/ k.val.t # "str" \/ c > Len(s) THEN JsonFail
        ELSE IF s[c] # ":" \/ ~v.ok \/ j > Len(s) THEN JsonFail
        ELSE IF s[j] = ","
        THEN ParsePairs(s, SkipSpace(s, j + 1), Append(acc, [key |-> k.val.s, value |-> v.val]))
        ELSE IF s[j] = "}"
        THEN JsonOk(ObjVal(Append(acc, [key |-> k.val.s, value |-> v.val])), j + 1)
        ELSE JsonFail

\* json.loads: the value, or JSONDecodeError (ok = FALSE)
json_loads(s) ==
    LET v == ParseValue(s, SkipSpace(s, 1))
    IN  IF v.ok /\ SkipSpace(s, v.next) > Len(s) THEN v ELSE JsonFail

\* dict.get(key, default) on a parsed object (the last pair of a key counts)
HasKey(obj, key) == \E i \in 1..Len(obj.items) : obj.items[i].key = key
GetKey(obj, key) ==
    obj.items[CHOOSE i \in 1..Len(obj.items) :
                 /\ obj.items[i].key = key
                 /\ \A j \in (i + 1)..Len(obj.items) : obj.items[j].key # key].value

K_selected_paths == <<"s","e","l","e","c","t","e","d","_","p","a","t","h","s">>
K_reasoning == <<"r","e","a","s","o","n","i","n","g">>
K_sql == <<"s","q","l">>

\* the text handed to json.loads
json_text(response_text) ==
    LET fence == IF Contains(response_text, T_fence_json) THEN T_fence_json ELSE T_fence
        m == FencedObject(response_text, fence, 1)
    IN  RemoveTrailingCommas(
            IF Contains(response_text, T_fence) /\ m.found THEN m.text ELSE response_text, 1)

\* the except branch: the response text cleared of a leading code fence
fallback_sql(response_text) ==
    IF StartsWith(response_text, T_fence_sql)
    THEN Strip(RemoveAll(RemoveAll(response_text, T_fence_sql), T_fence))
    ELSE IF StartsWith(response_text, T_fence)
    THEN Strip(RemoveAll(response_text, T_fence))
    ELSE response_text

\* sql_generation_node from response.content to selected_paths, reasoning
\* and sql_query; a reasoning the LLM gave is kept as "r"
parse_response(content) ==
    LET response_text == Strip(content)
        parsed == json_loads(json_text(response_text))
    IN  IF parsed.ok /\ parsed.val.t = "obj"
        THEN [json |-> TRUE,
              selected_paths |->
                  IF HasKey(parsed.val, K_selected_paths)
                  THEN LET l == GetKey(parsed.val, K_selected_paths).items
                       IN  [i \in 1..Len(l) |-> l[i].n]
                  ELSE <<>>,
              reasoning |-> IF HasKey(parsed.val, K_reasoning) THEN "r"
                            ELSE "No reasoning provided",
              sql |-> IF HasKey(parsed.val, K_sql) THEN GetKey(parsed.val, K_sql).s
                      ELSE <<>>]
        ELSE [json |-> FALSE, selected_paths |-> <<>>, reasoning |-> "",
              sql |-> fallback_sql(response_text)]

\* number of responses read in a row
MaxResponses == 2

R_object == <<"{","\"","s","q","l","\"",":"," ","\"","S","\"","}">>
R_full == <<"{","\"","s","e","l","e","c","t","e","d","_","p","a","t","h","s","\"",":"," ",
            "[","0",","," ","1","]",","," ","\"","r","e","a","s","o","n","i","n","g","\"",
            ":"," ","\"","w","\"",","," ","\"","s","q","l","\"",":"," ","\"","S","\"",",",
            " ","}">>
R_plain == <<"S"," ","1">>
R_list == <<"[","0","]">>
R_cut == <<"{","\"","s","q","l","\"",":"," ","\"","S","\"">>
R_prose == <<"x"," ">>

\* what the LLM can answer the SQL-generation prompt with
ResponseTexts ==
    { R_object, R_full, R_plain, R_list, R_cut, <<>>,
      <<" ">> \o R_plain \o <<" ">>,
      T_fence_json \o <<" ">> \o R_object \o <<" ">> \o T_fence,
      T_fence \o R_object \o T_fence,
      T_fence_json \o <<" ">> \o R_plain \o <<" ">> \o T_fence,
      T_fence_sql \o <<" ">> \o R_plain \o <<" ">> \o T_fence,
      T_fence \o <<" ">> \o R_plain \o <<" ">> \o T_fence,
      R_prose \o T_fence_sql \o <<" ">> \o R_plain \o <<" ">> \o T_fence }

\* parse_response of every text
Responses == [t \in ResponseTexts |-> parse_response(t)]

ParseInit ==
    /\ Idle
    /\ \E max_iterations \in 0..1 :
          call = [kind |-> "parse", n |-> 0, text |-> <<>>,
                  before |-> InitialState(Q_list, max_iterations),
                  after |-> InitialState(Q_list, max_iterations)]

\* one visit of sql_generation_node with the LLM answering text, no fallback
\* path discovery being due; the engine merges what the node returned
GenerateFromText ==
    /\ call.kind = "parse"
    /\ call.n < MaxResponses
    /\ \E text \in ResponseTexts :
          call' = [kind |-> "parse", n |-> call.n + 1, text |-> text,
                   before |-> call.after,
                   after |-> MergeState(call.after,
                                sql_generation_node(call.after, TRUE, <<>>, Responses[text]))]
    /\ UNCHANGED IdleVars

ParseNext == GenerateFromText

ParseSpec == ParseInit /\ [][ParseNext]_vars

(***************************************************************************)
(* Database._schema_graph: the graph build_schema_graph keeps, while the   *)
(* schema of the database file changes under it.                           *)
(***************************************************************************)
\* number of calls and schema changes one Database object sees
MaxGraphSteps == 3

\* Database.__init__: self._schema_graph = None
NoGraph == [set |-> FALSE, graph |-> [nodes |-> {}, edges |-> {}]]

\* the method Database.build_schema_graph on a Database whose _schema_graph
\* is cache and whose file holds db: the new _schema_graph, also returned
Database_build_schema_graph(cache, db) ==
    IF cache.set THEN cache ELSE [set |-> TRUE, graph |-> build_schema_graph(db)]

\* Database.find_shortest_path through the kept graph
Database_find_shortest_path_Cached(cache, db, start, end) ==
    LET r == nx_shortest_path(Database_build_schema_graph(cache, db).graph, start, end)
    IN  IF r.raised = "NetworkXNoPath"
        THEN [raised |-> FALSE, path |-> <<>>]
        ELSE [raised |-> r.raised # "", path |-> r.path]

N_None == <<"N","o","n","e">>

\* a foreign key as the schema declares it: from_table.from_column refers to
\* to_table.to_column; named tells whether the REFERENCES clause names the
\* column or leaves it out (it then refers to the primary key of to_table)
DeclaredFk(from_table, from_column, to_table, to_column, named) ==
    [from_table |-> from_table, from_column |-> from_column,
     to_table |-> to_table, to_column |-> to_column, named |-> named]

\* Database.get_all_foreign_keys: row[4] of PRAGMA foreign_key_list is NULL
\* for a clause that names no column, and the node name is formatted from None
ForeignKeyRows(declared) ==
    [i \in 1..Len(declared) |->
        <<declared[i].from_table, declared[i].from_column, declared[i].to_table,
          IF declared[i].named THEN declared[i].to_column ELSE N_None>>]

\* the database as the Database class reads it
ReadSchema(d) == [columns |-> d.columns, fks |-> ForeignKeyRows(d.declared)]

\* the schemas the file goes through: Player and Team with the foreign key
\* (column named or left out), without it, and with a table League that Team
\* references
DeclaredSchemas ==
    { [columns |-> get_all_columns,
       declared |-> << DeclaredFk(N_Player, N_team_id, N_Team, N_id, TRUE) >>],
      [columns |-> get_all_columns,
       declared |-> << DeclaredFk(N_Player, N_team_id, N_Team, N_id, FALSE) >>],
      [columns |-> get_all_columns, declared |-> <<>>],
      [columns |-> get_all_columns \o <<Col(N_League, N_id)>>,
       declared |-> << DeclaredFk(N_Player, N_team_id, N_Team, N_id, TRUE),
                       DeclaredFk(N_Team, N_id, N_League, N_id, TRUE) >>] }

GraphSchemas == { ReadSchema(d) : d \in DeclaredSchemas }

GraphEndpoints ==
    { NodeName(N_Player, N_player_name), NodeName(N_Team, N_team_name),
      NodeName(N_League, N_id) }

GraphInit ==
    /\ Idle
    /\ \E db \in GraphSchemas :
          call = [kind |-> "graph", n |-> 0, db |-> db, cache |-> NoGraph, op |-> "none",
                  returned |-> NoGraph.graph, start |-> <<>>, end |-> <<>>,
                  answer |-> [raised |-> FALSE, path |-> <<>>]]

\* a call of build_schema_graph()
BuildSchemaGraph ==
    /\ call.kind = "graph"
    /\ call.n < MaxGraphSteps
    /\ LET cache == Database_build_schema_graph(call.cache, call.db)
       IN  call' = [call EXCEPT !.n = @ + 1, !.op = "build", !.cache = cache,
                                !.returned = cache.graph]
    /\ UNCHANGED IdleVars

\* tables, columns or foreign keys of the database file change
AlterSchema ==
    /\ call.kind = "graph"
    /\ call.n < MaxGraphSteps
    /\ \E db \in GraphSchemas \ {call.db} :
          call' = [call EXCEPT !.n = @ + 1, !.op = "alter", !.db = db]
    /\ UNCHANGED IdleVars

\* a call of find_shortest_path(start, end)
CachedShortestPath ==
    /\ call.kind = "graph"
    /\ call.n < MaxGraphSteps
    /\ \E start \in GraphEndpoints, end \in GraphEndpoints :
          call' = [call EXCEPT !.n = @ + 1, !.op = "query",
                               !.cache = Database_build_schema_graph(call.cache, call.db),
                               !.start = start, !.end = end,
                               !.answer = Database_find_shortest_path_Cached(
                                              call.cache, call.db, start, end)]
    /\ UNCHANGED IdleVars

GraphNext == BuildSchemaGraph \/ AlterSchema \/ CachedShortestPath

GraphSpec == GraphInit /\ [][GraphNext]_vars

(***************************************************************************)
(* The retry decision on its own: should_retry_or_finish on a state that   *)
(* SqlGeneration and SqlExecution left, followed by the node it routes to  *)
(* when that node is human_interaction.  Through query() SqlExecution is   *)
(* visited only with human interaction disabled; here the decision is also *)
(* taken with it enabled.                                                  *)
(***************************************************************************)
RetryInit ==
    /\ Idle
    /\ call = [kind |-> "retry", done |-> FALSE, hi |-> FALSE,
               state |-> InitialState(Q_list, 0), route |-> "END",
               after |-> InitialState(Q_list, 0)]

\* one attempt (sql_generation_node, sql_execution_node), the retry decision
\* taken after it and, when it routes there, human_interaction_node; the
\* engine keeps what the nodes return, not what the routing function writes
\* into the state it is handed
RetryDecision ==
    /\ call.kind = "retry"
    /\ ~call.done
    /\ \E hi \in BOOLEAN, question \in Questions, max_iterations \in 1..SmallMaxIterations :
       \E iteration \in 0..max_iterations :
       \E response \in GenResponses("any"), db \in DbOutcomes("any") :
          LET s0 == [InitialState(question, max_iterations) EXCEPT !.iteration = iteration]
              s1 == MergeState(s0, sql_generation_node(s0, TRUE, <<>>, response))
              s2 == MergeState(s1, sql_execution_node(s1, TRUE, db))
              route == should_retry_or_finish(s2, hi)
          IN  call' = [kind |-> "retry", done |-> TRUE, hi |-> hi, state |-> s2,
                       route |-> route,
                       after |-> IF route = "human_interaction"
                                 THEN MergeState(s2, human_interaction_node(s2))
                                 ELSE s2]
    /\ UNCHANGED IdleVars

RetryNext == RetryDecision

RetrySpec == RetryInit /\ [][RetryNext]_vars


(***************************************************************************)
RunEnded == pc \in {"END", "GraphRecursionError"}

\* C1: in every step of a run, for every max_iterations (0 included) and with
\* human interaction enabled or disabled, iteration never decreases and
\* iteration <= max_iterations after the step.
C1_IterationWithinMax ==
    [][/\ state'.iteration >= state.iteration
       /\ state'.iteration <= state'.max_iterations]_vars

\* C2: with human interaction disabled and max_iterations >= 1, a run in which
\* every SQL execution failed ends at END after AnswerGeneration, with a final
\* answer that begins with "I encountered an error: "; it does not end by
\* GraphRecursionError escaping query() nor with an empty final answer.
C2_AllFailedRunEndsWithErrorAnswer ==
    (/\ ~enable_human_interaction
     /\ state.max_iterations >= 1
     /\ all_failed
     /\ RunEnded)
    => (/\ pc = "END"
        /\ last = "answer"
        /\ StartsWith(state.final_answer, T_I_encountered))

\* C3: a run makes at most 50 node visits: the count of visits never exceeds
\* 50, and every step of a run either is one more node visit or ends the run,
\* so that no run visits nodes forever.
C3_AtMost50NodeVisits ==
    /\ [](step <= 50)
    /\ [][\/ step' = step + 1 /\ pc \in NodeNames
          \/ step' = step /\ pc \in NodeNames /\ pc' = "GraphRecursionError"]_vars

\* C3 witness: a run with human interaction disabled whose database rejected
\* every statement is cut off after its 50th node visit.
C3_Witness ==
    /\ step = 50
    /\ pc = "GraphRecursionError"
    /\ ~enable_human_interaction
    /\ all_failed
    /\ visits["execute_sql"] > 0

ScenarioD == state.max_iterations = 3 /\ ~enable_human_interaction /\ all_failed

\* C4: with max_iterations = 3, human interaction disabled and every execution
\* failing: after the 1st and 2nd failed execution the run retries, after the
\* 3rd the next node is AnswerGeneration; SqlGeneration and SqlExecution are
\* visited exactly 3 times each, and AnswerGeneration leaves a non-empty final
\* answer that begins with "I encountered an error: ".
C4_ScenarioD ==
    ScenarioD =>
        /\ visits["generate_sql"] <= 3 /\ visits["execute_sql"] <= 3
        /\ (last = "execute_sql" /\ visits["execute_sql"] < 3
              => pc \in {"search_columns", "generate_sql"})
        /\ (last = "execute_sql" /\ visits["execute_sql"] = 3
              => pc = "answer" /\ visits["generate_sql"] = 3)
        /\ (last = "answer"
              => /\ pc = "END"
                 /\ visits["generate_sql"] = 3 /\ visits["execute_sql"] = 3
                 /\ state.final_answer # <<>>
                 /\ StartsWith(state.final_answer, T_I_encountered))

\* C4 witness: the run of scenario D has ended after AnswerGeneration.
C4_Witness == ScenarioD /\ last = "answer" /\ pc = "END" /\ visits["execute_sql"] = 3

\* C5: the attempt history sql_queries holds one entry per SqlGeneration
\* visit: its length equals the iteration counter.
C5_HistoryLengthIsIteration == Len(state.sql_queries) = state.iteration

\* C6: whenever SqlExecution completes with no execution error, the next node
\* is AnswerGeneration.
C6_SuccessLeadsToAnswer ==
    (last = "execute_sql" /\ state.execution_error = <<>>) => pc = "answer"

\* C7: after AnswerGeneration has run, final_answer is a non-empty string.
C7_FinalAnswerNonEmpty == last = "answer" => state.final_answer # <<>>

\* the error leaving SqlExecution contains "no such column", whatever the case
NoSuchColumnError(s) == Contains(Lower(s.execution_error), T_no_such_column)

\* human help is requested by the retry decision for the state s
HumanHelpRequested(s) ==
    enable_human_interaction /\ s.iteration = s.max_iterations - 1

\* C8: when SqlExecution leaves an error containing "no such column" (in any
\* case), iteration < max_iterations and no human help is requested, the next
\* node visited is ColumnSearch, not SqlGeneration; and only a SqlGeneration
\* visit changes iteration, by exactly +1, so ColumnSearch is entered with the
\* counter SqlExecution left.
C8_NoSuchColumnRoutesToColumnSearch ==
    [][/\ (/\ last = "execute_sql"
           /\ NoSuchColumnError(state)
           /\ state.iteration < state.max_iterations
           /\ ~HumanHelpRequested(state)
           /\ step' = step + 1) => (pc = "search_columns" /\ last' = "search_columns")
       /\ IF last' = "generate_sql" /\ step' = step + 1
          THEN state'.iteration = state.iteration + 1
          ELSE state'.iteration = state.iteration]_vars

\* C8 witness: a "No such column" error (capitalised) with attempts left has
\* been routed to ColumnSearch, which then ran with the counter unchanged.
C8_Witness ==
    /\ last = "search_columns"
    /\ NoSuchColumnError(state)
    /\ ~Contains(state.execution_error, T_no_such_column)
    /\ state.iteration >= 1
    /\ state.iteration < state.max_iterations

\* C9: with human interaction enabled, once the confirmation checkpoint has
\* run the run stops there (it returns with needs_human_input = TRUE): no node
\* is scheduled after it.
C9_CheckpointPausesRun ==
    (enable_human_interaction /\ last = "human_interaction")
    => (pc = "END" /\ state.needs_human_input)

\* C10: with human interaction enabled, every SqlGeneration visit is followed
\* by the SqlExecution of its SQL before any other SqlGeneration visit: the
\* generations never run more than one ahead of the executions.
C10_GenerationLeadsToExecution ==
    enable_human_interaction
    => visits["generate_sql"] <= visits["execute_sql"] + 1

\* C11: in every reachable state of a run the last execution result and the
\* last execution error are not both non-empty.
C11_ResultAndErrorExclusive ==
    ~(Truthy(state.execution_result) /\ state.execution_error # <<>>)

\* C11 witness: a failed execution was retried and the retry succeeded with
\* rows, which cleared the error.
C11_Witness ==
    /\ last = "execute_sql"
    /\ visits["execute_sql"] >= 2
    /\ ~all_failed
    /\ Truthy(state.execution_result)
    /\ state.execution_error = <<>>

RECURSIVE Ball(_, _, _)
\* the nodes of G within k edges of the set S
Ball(G, S, k) ==
    IF k = 0 THEN S
    ELSE Ball(G, S \cup { m \in G.nodes : \E n \in S : {n, m} \in G.edges }, k - 1)

\* a and b are connected in G
Connected(G, a, b) == b \in Ball(G, {a}, Cardinality(G.nodes))

\* the least number of edges between two connected nodes a and b of G
BfsDistance(G, a, b) ==
    CHOOSE k \in 0..Cardinality(G.nodes) :
        /\ b \in Ball(G, {a}, k)
        /\ k = 0 \/ b \notin Ball(G, {a}, k - 1)

\* p is a path of G from a to b
IsPath(G, p, a, b) ==
    /\ p # <<>>
    /\ p[1] = a
    /\ p[Len(p)] = b
    /\ \A i \in 1..(Len(p) - 1) : p[i] # p[i + 1] /\ {p[i], p[i + 1]} \in G.edges

\* the answer r to a path query on the graph G is right
RightAnswer(G, r) ==
    (r.start \in G.nodes /\ r.end \in G.nodes) =>
        /\ ~r.raised
        /\ IF Connected(G, r.start, r.end)
           THEN /\ IsPath(G, r.path, r.start, r.end)
                /\ Len(r.path) - 1 = BfsDistance(G, r.start, r.end)
           ELSE r.path = <<>>

\* C12: for every schema graph and every two columns that are nodes of it,
\* find_shortest_path(a, b) returns, when a and b are connected, a path from
\* a to b along edges of the graph whose length is the breadth-first distance,
\* and the empty sequence when they are not connected.
C12_ShortestPathIsRight ==
    call.kind = "path" /\ call.n >= 1
    => /\ RightAnswer(build_schema_graph(call.db), call.first)
       /\ RightAnswer(build_schema_graph(call.db), call.latest)

\* C12 witness: one query was answered by a path across two tables that is
\* three edges long, another, between unconnected columns, by the empty list.
C12_Witness ==
    /\ call.kind = "path" /\ call.n >= 2
    /\ Len(call.first.path) = 4
    /\ call.latest.start \in GraphNodesOf(call.db)
    /\ call.latest.end \in GraphNodesOf(call.db)
    /\ ~Connected(build_schema_graph(call.db), call.latest.start, call.latest.end)
    /\ call.latest.path = <<>> /\ ~call.latest.raised

\* a well-formed table.column identifier that is no node of the graph
AbsentColumn(db, x) == x \in Endpoints /\ x \notin GraphNodesOf(db)

\* C13: find_shortest_path(start, end) returns the empty sequence and does not
\* raise when start or end is a well-formed identifier that is no node of the
\* schema graph.
C13_AbsentEndpointGivesEmptyPath ==
    (/\ call.kind = "path" /\ call.n >= 1
     /\ \/ AbsentColumn(call.db, call.latest.start)
        \/ AbsentColumn(call.db, call.latest.end))
    => (~call.latest.raised /\ call.latest.path = <<>>)

ContainsIgnoringCase(value, query) ==
    \E i \in 0..(Len(value) - Len(query)) :
       \A k \in 1..Len(query) : LowerChar(value[i + k]) = LowerChar(query[k])

\* a declared type of text kind
DeclaredText(type) == Contains(Upper(type), T_TEXT) \/ Contains(Upper(type), T_CHAR)

\* the table and column lie in the scope the caller asked for
InScope(tbl, col) ==
    /\ call.table = <<>> \/ tbl = call.table
    /\ call.column = <<>> \/ col = call.column

\* r names a value of a text column of the database
FromTextColumn(r) ==
    \E i \in 1..Len(ValueTables) : \E j \in 1..Len(ValueTables[i].columns) :
       LET c == ValueTables[i].columns[j]
       IN  /\ ValueTables[i].name = r.table
           /\ c.name = r.column
           /\ DeclaredText(c.type)
           /\ \E k \in 1..Len(c.values) : c.values[k] = r.contents

\* no value of a text column in scope contains the query
NoValuePasses ==
    \A i \in 1..Len(ValueTables) : \A j \in 1..Len(ValueTables[i].columns) :
       LET c == ValueTables[i].columns[j]
       IN  (InScope(ValueTables[i].name, c.name) /\ DeclaredText(c.type))
           => \A k \in 1..Len(c.values) : ~ContainsIgnoringCase(c.values[k], call.query)

\* C16: every value search_values(query, table, column, limit) returns
\* contains the query whatever the case, and is a value of a text-typed column
\* inside the requested table and column scope; when no value passes the
\* substring filter the result is the empty list.
C16_ValuesContainQueryInScope ==
    (call.kind = "value" /\ call.op = "search_values")
    => /\ \A n \in 1..Len(call.results) :
             /\ ContainsIgnoringCase(call.results[n].contents, call.query)
             /\ FromTextColumn(call.results[n])
             /\ InScope(call.results[n].table, call.results[n].column)
       /\ NoValuePasses => call.results = <<>>

\* C16 witness: a search for "AB" in table Player returned "Ab" of the text
\* column player_name and left out "ab" of the integer column code.
C16_Witness ==
    /\ call.kind = "value" /\ call.op = "search_values"
    /\ call.query = Q_AB /\ call.table = N_Player /\ call.column = <<>>
    /\ call.limit = 2
    /\ call.results = << [contents |-> <<"A","b">>, table |-> N_Player,
                          column |-> N_player_name] >>

RECURSIVE Concat(_)
\* the concatenation of a list of lists
Concat(ll) == IF ll = <<>> THEN <<>> ELSE Head(ll) \o Concat(Tail(ll))

\* the first n entries of l (none for n <= 0)
FirstN(l, n) == SubSeq(l, 1, IF n < 0 THEN 0 ELSE IF n > Len(l) THEN Len(l) ELSE n)

\* C17: a value search returns at most limit results (none for a limit below
\* 1), for one query and for a list of queries; for a list it returns the
\* first limit entries of the per-query results concatenated in query order.
C17_AtMostLimitResults ==
    (call.kind = "value" /\ call.op # "none")
    => /\ Len(call.results) <= (IF call.limit < 0 THEN 0 ELSE call.limit)
       /\ call.op = "tool_run" => call.results = FirstN(Concat(call.per_query), call.limit)

\* the score of the candidate a result was made from
ScoreOf(r) ==
    call.scores[CHOOSE k \in 1..Len(call.candidates) : call.candidates[k] = r]

\* C18: the results of a single-query search_values are the highest-scoring
\* candidates in order of non-increasing score: every result is a candidate,
\* no later result outscores an earlier one, no candidate left out outscores
\* a result, and for a limit >= 0 there are min(limit, candidates) results.
C18_TopScoresInOrder ==
    (call.kind = "value" /\ call.op = "search_values")
    => LET res == call.results
           returned == { res[n] : n \in 1..Len(res) }
       IN  /\ \A n \in 1..Len(res) : \E k \in 1..Len(call.candidates) : call.candidates[k] = res[n]
           /\ \A m \in 1..Len(res) : \A n \in 1..Len(res) :
                 m < n => ScoreOf(res[m]) >= ScoreOf(res[n])
           /\ \A n \in 1..Len(res) : \A k \in 1..Len(call.candidates) :
                 call.candidates[k] \notin returned => ScoreOf(res[n]) >= call.scores[k]
           /\ call.limit >= 0 =>
                 Len(res) = (IF call.limit < Len(call.candidates) THEN call.limit
                             ELSE Len(call.candidates))

\* C18 witness: of three candidates the last scored highest; with limit 2 it
\* came first and one lower-scored candidate was left out.
C18_Witness ==
    /\ call.kind = "value" /\ call.op = "search_values"
    /\ Len(call.candidates) = 3
    /\ call.limit = 2
    /\ call.scores[3] > call.scores[1]
    /\ Len(call.results) = 2
    /\ call.results[1] = call.candidates[3]

\* the plan is [SearchColumn, GenerateSQL], the question holds no
\* join-indicating phrase and the relevant columns name at most one table
SingleTableCase(s) ==
    /\ s.required_actions = <<"SearchColumn", "GenerateSQL">>
    /\ ~AnyIn(join_keywords, Lower(s.question))
    /\ ~AnyIn(relationship_indicators, Lower(s.question))
    /\ Cardinality(TablesOf(s.relevant_columns)) <= 1

\* C19: a PathFinding visit in the single-table case performs no path search,
\* leaves join_paths as it was and yields needs_path_finding = false,
\* current_step = "path_finding_skipped" and path_finding_deferred = false.
C19_SingleTableSkipsPathFinding ==
    [][ (pc = "find_paths" /\ last' = "find_paths" /\ step' = step + 1
         /\ SingleTableCase(state))
        => /\ path_searches' = 0
           /\ state'.join_paths = state.join_paths
           /\ state'.needs_path_finding = FALSE
           /\ state'.current_step = "path_finding_skipped"
           /\ state'.path_finding_deferred = FALSE ]_vars

\* C19 witness: PathFinding has just been skipped in the single-table case
\* on a retry, with join paths of the first attempt still in the state.
C19_Witness ==
    /\ last = "find_paths"
    /\ SingleTableCase(state)
    /\ TablesOf(state.relevant_columns) = {N_Player}
    /\ state.join_paths # <<>>
    /\ state.current_step = "path_finding_skipped"

\* the distinct relevant columns
ColumnSet(s) == { s.relevant_columns[i] : i \in 1..Len(s.relevant_columns) }

\* the relevant columns are one column of Player and one column of Team, and
\* the schema graph joins the two (its only tables are Player and Team)
PlayerTeamCase(s) ==
    /\ Cardinality(ColumnSet(s)) = 2
    /\ \E p \in ColumnSet(s), t \in ColumnSet(s) :
          /\ p.table_name = N_Player
          /\ t.table_name = N_Team
          /\ \A r \in find_shortest_path(NodeName(N_Player, p.column_name),
                                         NodeName(N_Team, t.column_name)) :
                ~r.raised /\ r.path # <<>>

\* C20: a PathFinding visit whose relevant columns are one column of Player
\* and one of Team, joined in the schema graph, sets join_paths to exactly
\* one entry whose path is the table list Player, Team in that order.
C20_PlayerTeamPath ==
    [][ (pc = "find_paths" /\ last' = "find_paths" /\ step' = step + 1
         /\ Has("FindShortestPath") /\ PlayerTeamCase(state))
        => /\ Len(state'.join_paths) = 1
           /\ state'.join_paths[1].path = <<N_Player, N_Team>> ]_vars

\* C14: when query() is run again on the same question with the same
\* deterministic LLM stub and database, the second run visits the same nodes
\* and has the same workflow state after each node as the first, join_paths
\* (pairing order and paths) included.
C14_RerunGivesSameStates ==
    (call.kind = "rerun" /\ call.run = 2)
    => /\ Len(call.trace) <= Len(call.first)
       /\ \A i \in 1..Len(call.trace) :
             i <= Len(call.first) => call.trace[i] = call.first[i]
       /\ pc \in {"END", "GraphRecursionError"} => Len(call.trace) = Len(call.first)

\* the LLM response of the last SQL generation gave no JSON object
NotJson == call.kind = "parse" /\ call.n > 0 /\ ~Responses[call.text].json

\* C21: when the SQL-generation response is not valid JSON the node still
\* returns: path_selection_reasoning is "Failed to parse structured response",
\* selected_path_indices is empty, sql_query is the trimmed response text
\* with its code-fence markers removed, iteration grows by one and the text
\* is appended to the history.
C21_MalformedResponseFallsBack ==
    NotJson
    => /\ call.after.path_selection_reasoning = "Failed to parse structured response"
       /\ call.after.selected_path_indices = <<>>
       /\ call.after.sql_query
            = Strip(RemoveAll(RemoveAll(Strip(call.text), T_fence_sql), T_fence))
       /\ ~Contains(call.after.sql_query, T_fence)
       /\ call.after.iteration = call.before.iteration + 1
       /\ Len(call.after.sql_queries) > Len(call.before.sql_queries)
       /\ call.after.sql_queries[Len(call.after.sql_queries)] = call.after.sql_query

\* C22: build_schema_graph returns the graph of the schema as it is at the
\* call: an equal graph when the schema did not change, the graph of the new
\* tables, columns and foreign keys when it did; a later shortest-path query
\* is answered on that graph.
C22_RebuildReflectsSchema ==
    call.kind = "graph"
    => /\ call.op = "build" => call.returned = build_schema_graph(call.db)
       /\ call.op = "query"
          => call.answer = Database_find_shortest_path(call.db, call.start, call.end)

\* the declaration of the schema the Database reads as db
DeclarationOf(db) == CHOOSE d \in DeclaredSchemas : ReadSchema(d) = db

\* C23: in the graph built from a schema, every two distinct columns of one
\* table are joined by an edge, and every declared foreign key has an edge
\* between the node of the referencing column and the node of the column it
\* refers to.
C23_TablesCompleteAndFksJoined ==
    (call.kind = "graph" /\ call.op = "build" /\ call.n = 1)
    => LET d == DeclarationOf(call.db)
           G == call.returned
       IN  /\ \A i \in 1..Len(d.columns) : \A j \in 1..Len(d.columns) :
                 (i # j /\ d.columns[i].table_name = d.columns[j].table_name)
                 => {NodeName(d.columns[i].table_name, d.columns[i].column_name),
                     NodeName(d.columns[j].table_name, d.columns[j].column_name)} \in G.edges
           /\ \A k \in 1..Len(d.declared) :
                 {NodeName(d.declared[k].from_table, d.declared[k].from_column),
                  NodeName(d.declared[k].to_table, d.declared[k].to_column)} \in G.edges

\* C24: when SqlExecution leaves an error that does not contain "no such
\* column", iteration < max_iterations and no human help is requested, the
\* next node visited is SqlGeneration: no ColumnSearch, ValueSearch or
\* PathFinding visit comes between the failed execution and the regeneration.
C24_OtherErrorRegeneratesDirectly ==
    [][(/\ last = "execute_sql"
        /\ state.execution_error # <<>>
        /\ ~NoSuchColumnError(state)
        /\ state.iteration < state.max_iterations
        /\ ~HumanHelpRequested(state)
        /\ step' = step + 1) => (pc = "generate_sql" /\ last' = "generate_sql")]_vars

\* C24 witness: the second SqlGeneration has run straight after an execution
\* that failed with another error; the column search ran once, before the
\* first attempt.
C24_Witness ==
    /\ last = "generate_sql"
    /\ state.execution_error # <<>>
    /\ ~NoSuchColumnError(state)
    /\ visits["generate_sql"] = 2
    /\ visits["execute_sql"] = 1
    /\ visits["search_columns"] = 1
    /\ visits["human_interaction"] = 0

NoJoinPathFound(s) == \A i \in 1..Len(s.join_paths) : s.join_paths[i].path = <<>>

\* C26: whenever the plan lists FindShortestPath and a PathFinding visit ends
\* with no join path found (no tables to pair, no connecting path, or every
\* search raising), the state it leaves has path_finding_failed = TRUE and
\* the next node is SqlGeneration.
C26_RequiredPathFindingFailureIsFlagged ==
    [][(/\ pc = "find_paths" /\ last' = "find_paths" /\ step' = step + 1
        /\ InList("FindShortestPath", state.required_actions)
        /\ NoJoinPathFound(state'))
       => (state'.path_finding_failed /\ pc' = "generate_sql")]_vars

\* the question holds a join-indicating phrase
JoinPhrase(s) ==
    AnyIn(join_keywords, Lower(s.question)) \/ AnyIn(relationship_indicators, Lower(s.question))

\* C27: a PathFinding visit with fewer than 2 tables among the relevant
\* columns and a join-indicating phrase in the question makes no path search,
\* sets path_finding_deferred and single_table_with_join_indicators, and
\* leaves join_paths unchanged; the SqlGeneration visit that follows it
\* attempts the inline path discovery.
C27_DeferredPathFinding ==
    [][/\ (/\ pc = "find_paths" /\ last' = "find_paths" /\ step' = step + 1
           /\ Cardinality(TablesOf(state.relevant_columns)) < 2
           /\ JoinPhrase(state))
          => /\ path_searches' = 0
             /\ state'.path_finding_deferred
             /\ state'.single_table_with_join_indicators
             /\ state'.join_paths = state.join_paths
       /\ (/\ last = "find_paths" /\ state.current_step = "path_finding_deferred"
           /\ last' = "generate_sql" /\ step' = step + 1)
          => NeedsFallback(state)]_vars

\* join_paths is empty and the previous execution error is join-related or
\* path finding was deferred
FallbackDue(s) ==
    /\ s.join_paths = <<>>
    /\ \/ s.execution_error # <<>> /\ is_join_related_error(s.execution_error)
       \/ s.path_finding_deferred

\* the join_paths a discovery over the tables of s can give
DiscoveredPaths(s) ==
    { FoundPaths(res) :
        res \in UNION { PairResults(s.relevant_columns, tl, Len(tl) - 1) :
                          tl \in Orders(FallbackTables(s)) } }

\* C28: at a SqlGeneration visit the inline path discovery runs exactly when
\* join_paths is empty and the previous execution error is join-related or
\* path_finding_deferred is set: then, with two or more tables inferred, one
\* search is made per consecutive pair; when it yields an entry, join_paths
\* becomes the entries found and path_finding_deferred FALSE; when it yields
\* none, and whenever it does not run, no search is made and join_paths and
\* path_finding_deferred stay as they were.
C28_InlineFallbackPathDiscovery ==
    [][(pc = "generate_sql" /\ last' = "generate_sql" /\ step' = step + 1)
       => LET due == FallbackDue(state)
              runs == due /\ Cardinality(FallbackTables(state)) >= 2
                          /\ Has("FindShortestPath")
          IN  /\ path_searches' = IF runs THEN Cardinality(FallbackTables(state)) - 1 ELSE 0
              /\ IF runs /\ state'.join_paths # <<>>
                 THEN /\ state'.join_paths \in DiscoveredPaths(state)
                      /\ ~state'.path_finding_deferred
                 ELSE /\ state'.join_paths = state.join_paths
                      /\ state'.path_finding_deferred = state.path_finding_deferred]_vars

\* C28 witness: a SqlGeneration visit after a join-related execution error has
\* searched and found a join path for a state that had none.
C28_Witness ==
    /\ last = "generate_sql"
    /\ state.execution_error # <<>>
    /\ is_join_related_error(state.execution_error)
    /\ path_searches >= 1
    /\ state.join_paths # <<>>
    /\ ~state.path_finding_deferred

\* the text of what the executor hands back for the outcome db
ExecutorText(db) == Str(ExecuteSQLTool_run(db))

\* the executor's result for db carries the marker "error:" in any letter case
CarriesErrorMarker(db) == Contains(Lower(ExecutorText(db)), T_error)

\* C29: a SqlExecution visit leaves sql_query and iteration as they were; when
\* it ran the executor, a result whose text carries the marker "error:" in any
\* letter case, which includes every exception raised by the database, leaves
\* execution_result empty and execution_error equal to that text, and any other
\* result leaves execution_error empty and execution_result equal to the result.
C29_ErrorMarkerTreatedAsException ==
    [][(pc = "execute_sql" /\ last' = "execute_sql" /\ step' = step + 1)
       => /\ state'.sql_query = state.sql_query
          /\ state'.iteration = state.iteration
          /\ (state.sql_query # <<>> /\ Has("ExecuteSQL"))
             => \E db \in DbOutcomes(env) :
                   IF db.raised \/ CarriesErrorMarker(db)
                   THEN /\ state'.execution_result = None
                        /\ state'.execution_error = ExecutorText(db)
                   ELSE /\ state'.execution_error = <<>>
                        /\ state'.execution_result = Rows(db.rows)]_vars

\* C29 witness: the database returned a row whose text carries the marker in
\* capitals, and the visit recorded it as an error with an empty result.
C29_Witness ==
    /\ last = "execute_sql"
    /\ state.execution_result = None
    /\ state.execution_error = Str(<< <<C_ERROR_note>> >>)
    /\ state.sql_query # <<>>

\* C30: whenever AnswerGeneration has taken its failure branch (current_step
\* "complete_with_error", the answer carrying the error prefix), the iteration
\* counter has reached max_iterations: no error-framed answer is produced while
\* retry attempts remain.
C30_ErrorSurfacedOnlyAfterBudget ==
    (last = "answer" /\ state.current_step = "complete_with_error")
        => state.iteration >= state.max_iterations

\* C30 witness: after at least two failed executions the run ended with an
\* error-framed answer and the budget spent.
C30_Witness ==
    /\ last = "answer"
    /\ state.current_step = "complete_with_error"
    /\ StartsWith(state.final_answer, T_I_encountered)
    /\ visits["execute_sql"] >= 2
    /\ state.iteration >= state.max_iterations

(***************************************************************************)
(* column_search_node over databases of many columns: the fallback to the  *)
(* whole schema and its cap.                                               *)
(***************************************************************************)
\* longest flattened result of the SearchColumn tool
MaxFound == 4

\* a database listing n columns, the i-th named by i letters
NumberedColumns(n) == [i \in 1..n |-> Col(N_Player, [j \in 1..i |-> "c"])]

\* the numbers of columns a database lists, around the cap
ColumnCounts == {0, 2, FewColumns, FallbackColumns - 1, FallbackColumns, FallbackColumns + 1}

\* the flattened results of the SearchColumn tool, of every length
FoundLists ==
    LET pool == <<Col(N_Player, N_player_name), Col(N_Team, N_team_name), Col(N_Team, N_id)>>
    IN  { [i \in 1..k |-> pool[((i - 1) % Len(pool)) + 1]] : k \in 0..MaxFound }

\* the states a run enters column_search_node in: the first visit, and the
\* re-search after a "no such column" error
ColumnSearchEntries ==
    LET s0 == InitialState(Q_list, SmallMaxIterations)
    IN  { [s0 EXCEPT !.needs_column_search = TRUE],
          [s0 EXCEPT !.needs_column_search = TRUE,
                     !.relevant_columns = <<Col(N_Team, N_id), Col(N_Team, N_team_name),
                                            Col(N_Player, N_id)>>,
                     !.iteration = 1,
                     !.execution_error = Str(ExecuteSQLTool_run(DbRaised(M_no_such_column)))] }

ColumnInit ==
    /\ Idle
    /\ \E n \in ColumnCounts, before \in ColumnSearchEntries :
          call = [kind |-> "columns", done |-> FALSE, n |-> n, has_tool |-> TRUE,
                  found |-> <<>>, before |-> before, after |-> before]

\* one visit of column_search_node; the engine merges what the node returned
SearchColumnsOfDb ==
    /\ call.kind = "columns"
    /\ ~call.done
    /\ \E found \in FoundLists, has_tool \in BOOLEAN :
          call' = [call EXCEPT !.done = TRUE, !.has_tool = has_tool, !.found = found,
                               !.after = MergeState(call.before,
                                            column_search_node_db(call.before, has_tool, found,
                                                                  NumberedColumns(call.n)))]
    /\ UNCHANGED IdleVars

ColumnNext == SearchColumnsOfDb

ColumnSpec == ColumnInit /\ [][ColumnNext]_vars

\* the smaller of two numbers
Smaller(a, b) == IF a < b THEN a ELSE b

\* C31: after a ColumnSearch visit with the search tool available,
\* relevant_columns is the found columns followed by the first min(50, N) of
\* the N schema columns when fewer than 3 were found, and exactly the found
\* columns otherwise; the previous content is gone and needs_column_search is
\* false.
C31_ColumnFallbackCapped ==
    (call.kind = "columns" /\ call.done /\ call.has_tool)
        => /\ call.after.relevant_columns =
                 IF Len(call.found) < 3
                 THEN call.found \o SubSeq(NumberedColumns(call.n), 1, Smaller(50, call.n))
                 ELSE call.found
           /\ ~call.after.needs_column_search

\* C31 witness: a re-search that found two columns on a database of more
\* columns than the cap replaced three earlier columns by the two found and
\* the first fifty of the schema.
C31_Witness ==
    /\ call.kind = "columns" /\ call.done /\ call.has_tool
    /\ Len(call.found) = 2
    /\ call.n > 50
    /\ Len(call.before.relevant_columns) = 3
    /\ Len(call.after.relevant_columns) = 52
    /\ call.after.relevant_columns[52] = NumberedColumns(call.n)[50]

(***************************************************************************)
(* value_search_node and path_finding_node with tool calls that raise:     *)
(* several values, and three tables whose columns the search index lists   *)
(* while the schema graph the Database keeps may not have them.            *)
(***************************************************************************)
\* longest value list the LLM names
MaxValues == 4

\* the comma-separated values of the LLM response, of every length
NamedValues ==
    LET pool == <<"Barcelona", "Messi", "Madrid">>
    IN  { [i \in 1..k |-> pool[((i - 1) % Len(pool)) + 1]] : k \in 0..MaxValues }

\* the graphs the Database can hold: built before the League table existed,
\* with League unconnected, and with Team referencing League
RetrievalDbs ==
    { SchemaDb,
      [columns |-> get_all_columns \o <<Col(N_League, N_id)>>, fks |-> Pick(CandidateFks, {1}, 1)],
      [columns |-> get_all_columns \o <<Col(N_League, N_id)>>, fks |-> Pick(CandidateFks, {1, 3}, 1)] }

\* relevant_columns as the column search left them
RetrievalColumns ==
    { <<Col(N_Player, N_player_name), Col(N_Team, N_team_name), Col(N_League, N_id)>>,
      <<Col(N_Player, N_player_name), Col(N_League, N_id)>> }

\* FindShortestPathTool._run on the database db
FindShortestPathTool_run_db(db, start, end) ==
    LET r == Database_find_shortest_path(db, start, end)
    IN  IF r.raised THEN [raised |-> TRUE, text |-> <<>>]
        ELSE [raised |-> FALSE, text |-> format_path(r.path)]

\* what the path tool answers on db for each consecutive pair of table_list
PairResultsOfDb(db, columns, table_list) ==
    [i \in 1..(Len(table_list) - 1) |->
        FindShortestPathTool_run_db(db, SourceCol(columns, table_list, i),
                                    TargetCol(columns, table_list, i))]

RetrievalInit ==
    /\ Idle
    /\ \E db \in RetrievalDbs, columns \in RetrievalColumns, actions \in ActionLists("any") :
          LET s == [planning_node(InitialState(Q_list, SmallMaxIterations), actions)
                       EXCEPT !.relevant_columns = columns,
                              !.needs_column_search = FALSE,
                              !.current_step = "column_search_complete"]
          IN  call = [kind |-> "retrieval", done |-> FALSE, node |-> "", db |-> db,
                      has_tool |-> TRUE, values |-> <<>>, raised |-> {},
                      table_list |-> <<>>, results |-> <<>>,
                      before |-> s, after |-> s, route |-> ""]

\* one visit of value_search_node where the searches of raised raise
ValueSearchRaising ==
    /\ call.kind = "retrieval"
    /\ ~call.done
    /\ \E values \in NamedValues, has_tool \in BOOLEAN :
       \E raised \in SUBSET (1..Len(Take(values, MaxValueSearches))) :
          LET returned == value_search_node(call.before, has_tool, values,
                                            [i \in 1..Len(values) |-> <<values[i]>>], raised)
              after == MergeState(call.before, returned)
          IN  call' = [call EXCEPT !.done = TRUE, !.node = "search_values",
                                   !.has_tool = has_tool, !.values = values,
                                   !.raised = raised, !.after = after,
                                   !.route = NextNode("search_values", after, FALSE)]
    /\ UNCHANGED IdleVars

\* one visit of path_finding_node on the graph of call.db
PathFindingRaising ==
    /\ call.kind = "retrieval"
    /\ ~call.done
    /\ \E table_list \in Orders(TablesOf(call.before.relevant_columns)), has_tool \in BOOLEAN :
          LET results == IF has_tool
                         THEN PairResultsOfDb(call.db, call.before.relevant_columns, table_list)
                         ELSE <<>>
              returned == path_finding_node(call.before, has_tool, table_list, results)
              after == MergeState(call.before, returned)
          IN  call' = [call EXCEPT !.done = TRUE, !.node = "find_paths",
                                   !.has_tool = has_tool, !.table_list = table_list,
                                   !.results = results,
                                   !.raised = { i \in 1..Len(results) : results[i].raised },
                                   !.after = after,
                                   !.route = NextNode("find_paths", after, FALSE)]
    /\ UNCHANGED IdleVars

RetrievalNext == ValueSearchRaising \/ PathFindingRaising

RetrievalSpec == RetrievalInit /\ [][RetrievalNext]_vars

\* C32: a value search or a path search that raises does not stop its node:
\* every other value (of the first three) is still searched and its result
\* kept, every other table pair still gives its join path, the node completes
\* and the run is routed on towards SqlGeneration.
C32_RetrievalFailuresDoNotAbort ==
    (call.kind = "retrieval" /\ call.done)
        => /\ call.route \in {"find_paths", "generate_sql"}
           /\ (call.node = "find_paths") => (call.route = "generate_sql")
           /\ (call.node = "search_values" /\ call.values # <<>>)
                 => /\ call.after.current_step = "value_search_complete"
                    /\ call.has_tool
                         => \A i \in 1..Len(call.values) :
                               (i <= 3 /\ i \notin call.raised)
                                  => InList(call.values[i], call.after.relevant_values)
           /\ (call.node = "find_paths" /\ call.has_tool)
                 => /\ call.after.current_step \in {"path_finding_complete", "path_finding_failed"}
                    /\ Len(call.after.join_paths)
                         = Cardinality((1..Len(call.results)) \ call.raised)

\* C32 witness: the path search of the first table pair raised, the second
\* pair still gave its path, and the run was routed to SqlGeneration.
C32_Witness ==
    /\ call.kind = "retrieval" /\ call.done /\ call.node = "find_paths"
    /\ Len(call.results) = 2
    /\ call.raised = {1}
    /\ Len(call.after.join_paths) = 1
    /\ call.route = "generate_sql"

\* C33: every path search that raised during a PathFinding visit has its
\* error recorded in path_finding_errors of the state leaving the visit,
\* whether or not other pairs succeeded and whether or not the plan required
\* path finding.
C33_PathErrorsLogged ==
    (call.kind = "retrieval" /\ call.done /\ call.node = "find_paths")
        => \A i \in call.raised :
              InList(<<call.table_list[i], call.table_list[i + 1]>>,
                     call.after.path_finding_errors)

\* C34: with human interaction disabled and max_iterations >= 1, in any run
\* SqlGeneration is visited at most max_iterations times, every SqlGeneration
\* visit is immediately followed by a SqlExecution visit, Planning is visited
\* exactly once and first, and ValueSearch is visited at most once.
C34_VisitCounts ==
    [][(~enable_human_interaction /\ state.max_iterations >= 1)
       => /\ visits'["generate_sql"] <= state'.max_iterations
          /\ visits'["search_values"] <= 1
          /\ visits'["planning"] = 1
          /\ (last' = "planning") <=> (step' = 1)
          /\ (last = "generate_sql") => (last' = "execute_sql" /\ step' = step + 1)]_vars

\* C35: a retrieval node is visited only when its decision flag was true in
\* the state it was routed from: ColumnSearch with needs_column_search,
\* ValueSearch with needs_value_search, PathFinding with needs_path_finding.
C35_RetrievalOnlyWhenFlagged ==
    [][(step' = step + 1)
       => /\ (last' = "search_columns") => state.needs_column_search
          /\ (last' = "search_values") => state.needs_value_search
          /\ (last' = "find_paths") => state.needs_path_finding]_vars

\* C36: every entry of join_paths leaving a PathFinding visit has a
\* non-empty table list: a table pair with no connecting path in the schema
\* graph contributes no entry, so join_paths is empty when no path was found.
C36_JoinPathsAreRealPaths ==
    (call.kind = "retrieval" /\ call.done /\ call.node = "find_paths")
        => \A i \in 1..Len(call.after.join_paths) : call.after.join_paths[i].path # <<>>

\* C37: in every state left by a SqlGeneration visit each index of
\* selected_path_indices is an index into the join_paths shown to the model:
\* 0 <= i < len(join_paths).
C37_SelectedPathIndicesValid ==
    (last = "generate_sql")
        => \A k \in 1..Len(state.selected_path_indices) :
              /\ 0 <= state.selected_path_indices[k]
              /\ state.selected_path_indices[k] < Len(state.join_paths)

\* C38: the nodes of the graph built from a schema are exactly the
\* "table.column" identifiers of the columns the schema lists: adding the
\* foreign-key edges creates no further node.
C38_NodesAreListedColumns ==
    (call.kind = "graph" /\ call.op = "build" /\ call.n = 1)
    => call.returned.nodes =
          { NodeName(call.db.columns[i].table_name, call.db.columns[i].column_name) :
              i \in 1..Len(call.db.columns) }

(***************************************************************************)
(* Shortest paths as the SQL generation sees them: find_shortest_path, the *)
(* tool's formatting and _normalize_path, on the schemas of GraphSchemas   *)
(* and on one that declares its foreign keys to Team in both styles.       *)
(***************************************************************************)
N_Match == <<"M","a","t","c","h">>
N_home_team_id == <<"h","o","m","e","_","t","e","a","m","_","i","d">>
N_away_team_id == <<"a","w","a","y","_","t","e","a","m","_","i","d">>

\* Player.team_id REFERENCES Team, Match.home_team_id REFERENCES Team(id),
\* Match.away_team_id REFERENCES Team
MixedDeclaration ==
    [columns |-> get_all_columns
                 \o <<Col(N_Match, N_home_team_id), Col(N_Match, N_away_team_id)>>,
     declared |-> << DeclaredFk(N_Player, N_team_id, N_Team, N_id, FALSE),
                     DeclaredFk(N_Match, N_home_team_id, N_Team, N_id, TRUE),
                     DeclaredFk(N_Match, N_away_team_id, N_Team, N_id, FALSE) >>]

NormalizeSchemas == GraphSchemas \cup { ReadSchema(MixedDeclaration) }

\* the identifiers of the columns db lists
ListedNodes(db) ==
    { NodeName(db.columns[i].table_name, db.columns[i].column_name) :
        i \in 1..Len(db.columns) }

\* the table of a "table.column" identifier
TableOfNode(node) == Split(node, <<".">>)[1]

RECURSIVE CollapseConsecutive(_)
\* the tables along a node path, consecutive repetitions of a table dropped
CollapseConsecutive(path) ==
    IF path = <<>> THEN <<>>
    ELSE IF Len(path) = 1 THEN <<TableOfNode(path[1])>>
    ELSE LET rest == CollapseConsecutive(Tail(path))
         IN  IF TableOfNode(path[1]) = rest[1] THEN rest
             ELSE <<TableOfNode(path[1])>> \o rest

NormalizeInit ==
    /\ Idle
    /\ \E db \in NormalizeSchemas :
          call = [kind |-> "normalize", done |-> FALSE, db |-> db, start |-> <<>>,
                  end |-> <<>>, path |-> <<>>, raised |-> FALSE,
                  normalized |-> normalize_path(<<>>)]

\* path_tool._run(start, end) on the graph of call.db and _normalize_path of
\* what it returned, for two listed columns
NormalizeShortestPath ==
    /\ call.kind = "normalize"
    /\ ~call.done
    /\ \E start \in ListedNodes(call.db), end \in ListedNodes(call.db) :
          LET r == Database_find_shortest_path(call.db, start, end)
              text == FindShortestPathTool_run_db(call.db, start, end)
          IN  call' = [call EXCEPT !.done = TRUE, !.start = start, !.end = end,
                                   !.path = r.path, !.raised = r.raised,
                                   !.normalized = normalize_path(text.text)]
    /\ UNCHANGED IdleVars

NormalizeNext == NormalizeShortestPath

NormalizeSpec == NormalizeInit /\ [][NormalizeNext]_vars

\* C39: for every path find_shortest_path returns on a built schema graph,
\* the table list of _normalize_path (first occurrence of each table) equals
\* the list obtained by dropping only consecutive repetitions: no shortest
\* path leaves a table and enters it again.
C39_NormalizeIsConsecutiveCollapse ==
    (call.kind = "normalize" /\ call.done /\ ~call.raised /\ call.path # <<>>)
        => call.normalized.path = CollapseConsecutive(call.path)

(***************************************************************************)
(* AgentState.messages: Annotated[List[Any], operator.add].  A node that   *)
(* returns {**state, ...} without a "messages" key hands the stored list   *)
(* back, and the engine adds it to the stored list.  A run of the workflow *)
(* without human interaction is kept in call, with its transcript; an      *)
(* entry is named by the node that produced it and the number of its visit.*)
(***************************************************************************)
\* largest max_iterations of the runs whose transcript is followed
MaxTranscriptIterations == 2

\* the AIMessage a node builds at its n-th visit of the run
Msg(node, n) == [node |-> node, visit |-> n]

\* "messages" of the dict column_search_node returns
column_search_node_messages(has_tool, stored, new) ==
    IF has_tool THEN <<new>> ELSE stored

\* "messages" of the dict value_search_node returns
value_search_node_messages(values, stored, new) ==
    IF values = <<>> THEN stored ELSE <<new>>

\* "messages" of the dict path_finding_node returns
path_finding_node_messages(s, stored, new) ==
    IF should_skip(s) THEN stored ELSE <<new>>

\* "messages" of the dict sql_execution_node returns
sql_execution_node_messages(s, has_tool, stored, new) ==
    IF s.sql_query = <<>> \/ ~has_tool THEN stored ELSE <<new>>

\* initial_state of query(): "messages": []
TranscriptInit ==
    /\ Idle
    /\ \E question \in Questions, max_iterations \in 1..MaxTranscriptIterations :
          call = [kind |-> "transcript", pc |-> "planning", n |-> 0,
                  state |-> InitialState(question, max_iterations),
                  before |-> <<>>, returned |-> <<>>, messages |-> <<>>]

\* the engine runs node: it merges the returned dict and adds the returned
\* "messages" to the stored transcript
TranscriptVisit(node, returned, returned_messages) ==
    LET after == MergeState(call.state, returned)
    IN  call' = [call EXCEPT !.pc = NextNode(node, after, FALSE),
                             !.n = @ + 1,
                             !.state = after,
                             !.before = call.messages,
                             !.returned = returned_messages,
                             !.messages = call.messages \o returned_messages]

TranscriptAt(node) == call.kind = "transcript" /\ call.pc = node

TranscriptPlanning ==
    /\ TranscriptAt("planning")
    /\ \E actions \in ActionLists("any") :
          TranscriptVisit("planning", planning_node(call.state, actions),
                          <<Msg("planning", call.n + 1)>>)
    /\ UNCHANGED IdleVars

TranscriptColumnSearch ==
    /\ TranscriptAt("search_columns")
    /\ \E found \in FoundColumns("any") :
          TranscriptVisit("search_columns", column_search_node(call.state, TRUE, found),
                          column_search_node_messages(TRUE, call.messages,
                                                      Msg("search_columns", call.n + 1)))
    /\ UNCHANGED IdleVars

TranscriptValueSearch ==
    /\ TranscriptAt("search_values")
    /\ \E values \in ValueLists("any") :
          TranscriptVisit("search_values",
                          value_search_node(call.state, TRUE, values,
                                            [i \in 1..Len(values) |-> <<values[i]>>], {}),
                          value_search_node_messages(values, call.messages,
                                                     Msg("search_values", call.n + 1)))
    /\ UNCHANGED IdleVars

TranscriptPathFinding ==
    /\ TranscriptAt("find_paths")
    /\ \E table_list \in Orders(TablesOf(call.state.relevant_columns)) :
       \E results \in PairResults(call.state.relevant_columns, table_list,
                                  path_finding_calls(call.state, TRUE, table_list)) :
          TranscriptVisit("find_paths",
                          path_finding_node(call.state, TRUE, table_list, results),
                          path_finding_node_messages(call.state, call.messages,
                                                     Msg("find_paths", call.n + 1)))
    /\ UNCHANGED IdleVars

TranscriptSqlGeneration ==
    /\ TranscriptAt("generate_sql")
    /\ \E table_list \in (IF NeedsFallback(call.state)
                          THEN Orders(FallbackTables(call.state)) ELSE { <<>> }) :
       \E results \in PairResults(call.state.relevant_columns, table_list,
                                  fallback_calls(call.state, TRUE, table_list)) :
       \E response \in GenResponses("any") :
          TranscriptVisit("generate_sql",
                          sql_generation_node(call.state, TRUE, results, response),
                          <<Msg("generate_sql", call.n + 1)>>)
    /\ UNCHANGED IdleVars

TranscriptSqlExecution ==
    /\ TranscriptAt("execute_sql")
    /\ \E db \in DbOutcomes("any") :
          TranscriptVisit("execute_sql", sql_execution_node(call.state, TRUE, db),
                          sql_execution_node_messages(call.state, TRUE, call.messages,
                                                      Msg("execute_sql", call.n + 1)))
    /\ UNCHANGED IdleVars

TranscriptAnswerGeneration ==
    /\ TranscriptAt("answer")
    /\ \E content \in AnswerTexts :
          TranscriptVisit("answer", answer_generation_node(call.state, content),
                          <<Msg("answer", call.n + 1)>>)
    /\ UNCHANGED IdleVars

TranscriptNext ==
    \/ TranscriptPlanning
    \/ TranscriptColumnSearch
    \/ TranscriptValueSearch
    \/ TranscriptPathFinding
    \/ TranscriptSqlGeneration
    \/ TranscriptSqlExecution
    \/ TranscriptAnswerGeneration

TranscriptSpec == TranscriptInit /\ [][TranscriptNext]_vars

\* C40: a node visit adds at most one entry to the transcript and adds no
\* entry that is already in it: the transcript never holds an entry twice.
C40_TranscriptAppendsOnce ==
    (call.kind = "transcript")
        => /\ Len(call.messages) <= Len(call.before) + 1
           /\ \A i \in 1..Len(call.messages) : \A j \in 1..Len(call.messages) :
                 (i # j) => (call.messages[i] # call.messages[j])
====
